---- MODULE Spec2Model ----
(***************************************************************************)
(* Marlu: the uvfits baseline codec and the UvfitsWriter row-count state   *)
(* machine (src/io/uvfits.rs), VisSelection (src/selection.rs), Jones      *)
(* matrices (src/jones.rs) and the positions of src/pos.                   *)
(*                                                                         *)
(* The specifications share the variables below:                           *)
(*   SpecCodec    the pure functions encode_uvfits_baseline and            *)
(*                decode_uvfits_baseline applied to sampled antenna pairs; *)
(*   Spec         one UvfitsWriter: new, write_vis_row, write_vis_marlu    *)
(*                and write_uvfits_antenna_table, with the FITS library as *)
(*                an environment that may fail any call;                   *)
(*   SpecAvg      from_marlu and one write_vis_marlu: the rows written;    *)
(*   SpecAbort    write_vis_marlu calls in which any one row write fails;  *)
(*   SpecDate     writers started at any time of a day: the DATE of rows;  *)
(*   SpecSel      a VisSelection: get_shape and the three allocators, in   *)
(*                64-bit usize arithmetic;                                 *)
(*   SpecFrom     VisSelection::from_mwalib on sampled contexts;           *)
(*   SpecRead     one read_mwalib call: its parallel tasks, one per coarse *)
(*                channel, interleaved one timestep at a time;             *)
(*   SpecLmn      LMN::prepare_for_rime and LmnRime::to_lmn;               *)
(*   SpecJones    Jones::inv and the division of Jones matrices;           *)
(*   SpecPrecess  get_lmst and precess_time, given the PAL results;        *)
(*   SpecXyz      one precess_xyz_parallel call, its tasks in any order.   *)
(*                                                                         *)
(* A float is a rational [n, d] (d = 0: NaN when n = 0, an infinity        *)
(* otherwise).  The visibilities and weights of the writer are exact; the  *)
(* arithmetic of the f64 section rounds every result to MantBits           *)
(* significant bits, to the nearest, ties to even.                         *)
(***************************************************************************)
EXTENDS Integers, Sequences, FiniteSets, TLC

VARIABLES
    \* ---- codec harness (SpecCodec) ----
    cpc,                \* "start" | "encoded" | "decoded"
    ant,                \* the one-indexed antenna pair <<ant1, ant2>> under test
    bl,                 \* encode_uvfits_baseline(ant[1], ant[2]), once encoded
    dec,                \* outcome of decode_uvfits_baseline(bl), once decoded
    \* ---- UvfitsWriter (Spec) ----
    wpc,                \* "none" | "ready" | "consumed" | "panicked"
    total_num_rows,     \* UvfitsWriter.total_num_rows
    current_num_rows,   \* UvfitsWriter.current_num_rows
    groups,             \* groups[g]: how many times ffpgpe wrote group g of the file
    ffpgpe,             \* the ffpgpe calls of the most recent operation, in call order
    antenna_hdu,        \* the "AIPS AN" table of the file: created?, its rows
    call,               \* the most recent operation and its arguments
    res,                \* what the most recent operation returned
    start_epoch,        \* UvfitsWriter.start_epoch: a Julian date (UTC), in days
    primary_header,     \* the PZERO5 and DATE-OBS keys of the primary header
    succ,               \* history: row writes that succeeded since the writer was created
    \* ---- VisSelection (SpecSel, SpecFrom, SpecRead) ----
    vis_sel,            \* the VisSelection: timestep_range, coarse_chan_range, baseline_idxs
    scall,              \* the most recent call on the selection and its arguments
    sres,               \* what it returned
    \* ---- one read_mwalib call (SpecRead) ----
    corr_ctx,           \* the CorrelatorContext: what each HDU read gives
    jones_array,        \* the caller's jones_array: [dim, data]
    flag_array,         \* the caller's flag_array: [dim, data]
    tasks,              \* the parallel tasks, one per selected coarse channel
    reads,              \* the (timestep, coarse channel) pairs read_by_baseline_into_buffer was called for
    touched,            \* history: the tasks that wrote each array element
    \* ---- LMN, Jones, precession (SpecLmn, SpecJones, SpecPrecess, SpecXyz) ----
    lmn,                \* an LMN value
    lmn_rime,           \* lmn.prepare_for_rime(), once computed
    lmn2,               \* lmn_rime.to_lmn(), once computed
    jcall,              \* a Jones operation and its operands
    jres,               \* what it returned
    pcall,              \* a call of get_lmst or precess_time and its arguments
    pres,               \* what it returned
    precession_info,    \* the PrecessionInfo precess_xyz_parallel is called on
    xyzs,               \* the input slice of precess_xyz_parallel
    out,                \* its output vector
    xyz_tasks           \* the parallel tasks of its map, one per element

cvars == <<cpc, ant, bl, dec>>
wvars == <<wpc, total_num_rows, current_num_rows, groups, ffpgpe, antenna_hdu, call, res,
          start_epoch, primary_header, succ>>
svars == <<vis_sel, scall, sres>>
rvars == <<corr_ctx, jones_array, flag_array, tasks, reads, touched>>
pvars == <<lmn, lmn_rime, lmn2, jcall, jres, pcall, pres, precession_info,
           xyzs, out, xyz_tasks>>
vars == <<cvars, wvars, svars, rvars, pvars>>

(***************************************************************************)
(* Bounds of the model.                                                    *)
(***************************************************************************)
\* antenna numbers sampled within Near of 1, of the 255/256 boundary and of MaxAnt
Near == 2
\* num_timesteps / selected timesteps
MaxTimesteps == 2
\* num_baselines / selected baselines
MaxBaselines == 2
\* selected fine channels
MaxChans == 2
\* avg_time, avg_freq
MaxAvg == 2
\* antenna names / positions given to the antenna table
MaxTiles == 2

(***************************************************************************)
(* Program constants.                                                      *)
(***************************************************************************)
\* "handle more than 255 antennas (up to 2048)"
MaxAnt == 2048

(***************************************************************************)
(* encode_uvfits_baseline / decode_uvfits_baseline                         *)
(***************************************************************************)
\* mutant: the Miriad offset is left out
encode_no_offset(ant1, ant2) ==
    IF ant2 > 255 THEN ant1 * 2048 + ant2 ELSE ant1 * 256 + ant2

encode_uvfits_baseline(ant1, ant2) ==
    IF ant2 > 255
    THEN ant1 * 2048 + ant2 + 65536
    ELSE ant1 * 256 + ant2

\* The set of outcomes of decode_uvfits_baseline(b) over the builds.
\* usize arithmetic: `b - 65_536` underflows when b = 65535 (the only value
\* that takes the else branch below 65536).  A debug build panics; a release
\* build wraps modulo 2^64.  As 2^64 is a multiple of 2048 the wrapped ant2
\* is (b - 65536) % 2048, and the wrapped ant1 is 2^53 + (b - ant2 - 65536)
\* \div 2048; kind "wrapped" marks that ant1 holds that value less 2^53.
decode_uvfits_baseline(b) ==
    IF b < 65535
    THEN LET ant2 == b % 256
             ant1 == (b - ant2) \div 256
         IN  {[kind |-> "ok", ant1 |-> ant1, ant2 |-> ant2]}
    ELSE LET ant2 == (b - 65536) % 2048
             ant1 == (b - ant2 - 65536) \div 2048
         IN  IF b - 65536 >= 0
             THEN {[kind |-> "ok", ant1 |-> ant1, ant2 |-> ant2]}
             ELSE {[kind |-> "panic", ant1 |-> 0, ant2 |-> 0],
                   [kind |-> "wrapped", ant1 |-> ant1, ant2 |-> ant2]}

\* sampled one-indexed antenna numbers
AntSamples ==
    {a \in 1..MaxAnt : \/ a <= Near
                       \/ (a >= 255 - Near /\ a <= 256 + Near)
                       \/ a >= MaxAnt - Near}

NoDec == [kind |-> "none", ant1 |-> 0, ant2 |-> 0]

(***************************************************************************)
(* Floating-point values as exact rationals.                               *)
(***************************************************************************)
RECURSIVE GCD(_, _)
GCD(x, y) == IF y = 0 THEN x ELSE GCD(y, x % y)

Abs(x) == IF x < 0 THEN -x ELSE x

Min(x, y) == IF x <= y THEN x ELSE y

\* the function f as an evaluated table (TLC would otherwise evaluate the
\* body of [x \in S |-> e] again at every application)
Table(f) == f @@ <<>>

\* ceil(x / y) for y > 0
CeilDiv(x, y) == (x + y - 1) \div y

\* 0.0 / 0.0
NaN == [n |-> 0, d |-> 0]

\* the float n / d, in lowest terms
Rat(n, d) ==
    IF d = 0
    THEN NaN
    ELSE LET g == GCD(Abs(n), Abs(d))
             s == IF d < 0 THEN -1 ELSE 1
         IN  [n |-> (s * n) \div g, d |-> (s * d) \div g]

\* the float of an integer
F(k) == [n |-> k, d |-> 1]

(***************************************************************************)
(* VisContext (src/context.rs, not among the source files): the selected   *)
(* and averaged dimensions of a chunk of visibilities.                     *)
(*   [num_sel_timesteps, num_sel_chans, sel_baselines, avg_time, avg_freq, *)
(*    num_vis_pols]                                                        *)
(***************************************************************************)
sel_dims(ctx) == <<ctx.num_sel_timesteps, ctx.num_sel_chans, Len(ctx.sel_baselines)>>

num_avg_timesteps(ctx) == CeilDiv(ctx.num_sel_timesteps, ctx.avg_time)

num_avg_chans(ctx) == CeilDiv(ctx.num_sel_chans, ctx.avg_freq)

trivial_averaging(ctx) == ctx.avg_time = 1 /\ ctx.avg_freq = 1

(***************************************************************************)
(* The input arrays of write_vis_marlu, indexed [timestep][channel]        *)
(* [baseline] from 0.  Jones entries 0..3 are XX, XY, YX, YY.              *)
(***************************************************************************)
\* vis[[t, c, b]]: known, pairwise distinct Jones values
VisAt(t, c, b) ==
    Table([p \in 0..3 |-> [re |-> 1000 * t + 100 * c + 10 * b + 2 * p,
                           im |-> 1000 * t + 100 * c + 10 * b + 2 * p + 1]])

\* the sampled weight arrays: "equal" all 2; "ramp" positive and unequal;
\* "flagged" has a negative (flagged) weight wherever t + c is even
WeightPatterns == {"equal", "ramp", "flagged"}

\* weights[[t, c, b]]
WeightAt(pat, t, c, b) ==
    CASE pat = "equal" -> 2
      [] pat = "ramp" -> 1 + t + 2 * c
      [] OTHER -> IF (t + c) % 2 = 0 THEN -(1 + c) ELSE 1 + c

(***************************************************************************)
(* average_chunk_f64! (src/averaging.rs, not among the source files):      *)
(* the weighted average of a block of samples; a sample whose weight is    *)
(* not positive is flagged and adds nothing to the sums.                   *)
(***************************************************************************)
\* sum of part(samples[i]) over the unflagged samples i..Len(samples)
RECURSIVE WeightedSum(_, _, _, _)
WeightedSum(samples, i, p, part) ==
    IF i > Len(samples)
    THEN 0
    ELSE LET s == samples[i]
             term == IF s.weight > 0
                     THEN CASE part = "re" -> s.weight * s.jones[p].re
                            [] part = "im" -> s.weight * s.jones[p].im
                            [] OTHER -> s.weight
                     ELSE 0
         IN  term + WeightedSum(samples, i + 1, p, part)

\* samples: a sequence of [jones, weight]; returns [jones, weight]
average_chunk_f64(samples) ==
    LET wsum == WeightedSum(samples, 1, 0, "weight")
    IN  [jones |-> Table([p \in 0..3 |->
                      [re |-> Rat(WeightedSum(samples, 1, p, "re"), wsum),
                       im |-> Rat(WeightedSum(samples, 1, p, "im"), wsum)]]),
         weight |-> F(wsum)]

(***************************************************************************)
(* write_vis_marlu: the rows built from the arrays                         *)
(***************************************************************************)
\* the raw samples of averaged timestep ti, averaged channel ci, baseline b:
\* axis_chunks_iter gives chunks of avg_time timesteps and avg_freq channels,
\* the last of each possibly shorter
BlockSamples(ctx, pat, ti, ci, b) ==
    LET tlo == ti * ctx.avg_time
        tn == Min(ctx.avg_time, ctx.num_sel_timesteps - tlo)
        clo == ci * ctx.avg_freq
        cn == Min(ctx.avg_freq, ctx.num_sel_chans - clo)
    IN  Table([i \in 1..(tn * cn) |->
            LET t == tlo + ((i - 1) \div cn)
                c == clo + ((i - 1) % cn)
            IN  [jones |-> VisAt(t, c, b), weight |-> WeightAt(pat, t, c, b)]])

\* mutant: the averaging macro is never run, the first sample is copied
AvgBlock_first_only(ctx, samples) ==
    [jones |-> Table([p \in 0..3 |-> [re |-> F(samples[1].jones[p].re),
                                      im |-> F(samples[1].jones[p].im)]]),
     weight |-> F(samples[1].weight)]

\* avg_jones and avg_weight of one block
AvgBlock(ctx, samples) ==
    IF ~trivial_averaging(ctx)
    THEN average_chunk_f64(samples)
    ELSE [jones |-> Table([p \in 0..3 |-> [re |-> F(samples[1].jones[p].re),
                                           im |-> F(samples[1].jones[p].im)]]),
          weight |-> F(samples[1].weight)]

\* mutant: the polarisations are written in the order XX, XY, YX, YY
VisChunk_unpermuted(a) ==
    << a.jones[0].re, a.jones[0].im, a.weight,
       a.jones[1].re, a.jones[1].im, a.weight,
       a.jones[2].re, a.jones[2].im, a.weight,
       a.jones[3].re, a.jones[3].im, a.weight >>

\* the 12 floats of one averaged channel: XX, YY, XY, YX
VisChunk(a) ==
    << a.jones[0].re, a.jones[0].im, a.weight,
       a.jones[3].re, a.jones[3].im, a.weight,
       a.jones[1].re, a.jones[1].im, a.weight,
       a.jones[2].re, a.jones[2].im, a.weight >>

\* vis_tmp after the channel loop of averaged timestep ti, baseline position bi:
\* 3 * num_vis_pols * num_avg_chans floats, zero at first, filled in chunks of 12
VisTmp(ctx, pat, ti, bi) ==
    LET len == 3 * ctx.num_vis_pols * num_avg_chans(ctx)
        nchunks == Min(CeilDiv(ctx.num_sel_chans, ctx.avg_freq), len \div 12)
        chunks == Table([ci \in 0..(nchunks - 1) |->
                      VisChunk(AvgBlock(ctx, BlockSamples(ctx, pat, ti, ci, bi)))])
    IN  Table([i \in 1..len |->
            IF (i - 1) \div 12 < nchunks
            THEN chunks[(i - 1) \div 12][((i - 1) % 12) + 1]
            ELSE F(0)])

\* mutant: the baseline loop is the outer one
MarluRows_baseline_major(ctx, pat) ==
    LET nt == num_avg_timesteps(ctx)
    IN  Table([k \in 1..(nt * Len(ctx.sel_baselines)) |->
            LET bi == (k - 1) \div nt
                ti == (k - 1) % nt
            IN  [tile_index1 |-> ctx.sel_baselines[bi + 1][1],
                 tile_index2 |-> ctx.sel_baselines[bi + 1][2],
                 vis |-> VisTmp(ctx, pat, ti, bi)]])

\* the arguments of the write_vis_row calls of one write_vis_marlu call, in
\* call order: averaged timesteps outermost, selected baselines within
MarluRows(ctx, pat) ==
    LET nb == Len(ctx.sel_baselines)
    IN  Table([k \in 1..(num_avg_timesteps(ctx) * nb) |->
            LET ti == (k - 1) \div nb
                bi == (k - 1) % nb
            IN  [tile_index1 |-> ctx.sel_baselines[bi + 1][1],
                 tile_index2 |-> ctx.sel_baselines[bi + 1][2],
                 vis |-> VisTmp(ctx, pat, ti, bi)]])

(***************************************************************************)
(* Idle values of the variables a specification does not use.              *)
(***************************************************************************)
NoRes == [kind |-> "none", a |-> 0, b |-> 0, arg |-> ""]
NoCall == [op |-> "none"]
NoAntennaHdu == [created |-> FALSE, rows |-> <<>>]
NoEpoch == [n |-> 0, d |-> 1]
NoHeader == [written |-> FALSE]

WriterIdle ==
    /\ wpc = "none"
    /\ total_num_rows = 0
    /\ current_num_rows = 0
    /\ groups = <<>>
    /\ ffpgpe = <<>>
    /\ antenna_hdu = NoAntennaHdu
    /\ call = NoCall
    /\ res = NoRes
    /\ start_epoch = NoEpoch
    /\ primary_header = NoHeader
    /\ succ = 0

CodecIdle ==
    /\ cpc = "start"
    /\ ant = <<1, 1>>
    /\ bl = 0
    /\ dec = NoDec

\* VisSelection::default(), no call made
SelIdle ==
    /\ vis_sel = [timestep_range |-> [start |-> <<>>, end |-> <<>>],
                  coarse_chan_range |-> [start |-> <<>>, end |-> <<>>],
                  baseline_idxs |-> <<>>]
    /\ scall = NoCall
    /\ sres = [kind |-> "none"]

ReadIdle ==
    /\ corr_ctx = [kind |-> "none"]
    /\ jones_array = [dim |-> <<>>, data |-> <<>>]
    /\ flag_array = [dim |-> <<>>, data |-> <<>>]
    /\ tasks = <<>>
    /\ reads = <<>>
    /\ touched = <<>>

NoneYet == [kind |-> "none"]

PosIdle ==
    /\ lmn = NoneYet
    /\ lmn_rime = NoneYet
    /\ lmn2 = NoneYet
    /\ jcall = NoCall
    /\ jres = NoneYet
    /\ pcall = NoCall
    /\ pres = NoneYet
    /\ precession_info = NoneYet
    /\ xyzs = <<>>
    /\ out = <<>>
    /\ xyz_tasks = <<>>

(***************************************************************************)
(* SpecCodec                                                               *)
(***************************************************************************)
InitCodec ==
    /\ cpc = "start"
    /\ ant \in AntSamples \X AntSamples
    /\ bl = 0
    /\ dec = NoDec
    /\ WriterIdle
    /\ PosIdle
    /\ SelIdle
    /\ ReadIdle

Encode ==
    /\ cpc = "start"
    /\ bl' = encode_uvfits_baseline(ant[1], ant[2])
    /\ cpc' = "encoded"
    /\ UNCHANGED <<ant, dec, wvars, svars, rvars, pvars>>

Decode ==
    /\ cpc = "encoded"
    /\ dec' \in decode_uvfits_baseline(bl)
    /\ cpc' = "decoded"
    /\ UNCHANGED <<ant, bl, wvars, svars, rvars, pvars>>

NextCodec == Encode \/ Decode

SpecCodec == InitCodec /\ [][NextCodec]_vars

(***************************************************************************)
(* UvfitsWriter: results                                                   *)
(***************************************************************************)
Ok == [kind |-> "Ok", a |-> 0, b |-> 0, arg |-> ""]

\* an error of the FITS library, the file system or a string conversion
FitsError == [kind |-> "Fits", a |-> 0, b |-> 0, arg |-> ""]

\* a failed assertion or an index out of bounds
Panic == [kind |-> "Panic", a |-> 0, b |-> 0, arg |-> ""]

\* mutant: the two counts are reported in each other's field
NotEnoughRowsWritten_swapped(current, total) ==
    [kind |-> "NotEnoughRowsWritten", a |-> total, b |-> current, arg |-> ""]

\* UvfitsWriteError::NotEnoughRowsWritten { current: a, total: b }
NotEnoughRowsWritten(current, total) ==
    [kind |-> "NotEnoughRowsWritten", a |-> current, b |-> total, arg |-> ""]

\* UvfitsWriteError::BadRowNum { row_num: a, num_rows: b }
BadRowNum(row_num, num_rows) ==
    [kind |-> "BadRowNum", a |-> row_num, b |-> num_rows, arg |-> ""]

\* IOError::BadArrayShape { argument: arg, function: "write_vis_marlu", .. }
BadArrayShape(argument) ==
    [kind |-> "BadArrayShape", a |-> 0, b |-> 0, arg |-> argument]

(***************************************************************************)
(* f64 arithmetic.  A float is the rational [n, d] in lowest terms (d > 0),*)
(* NaN = [0, 0], +inf = [1, 0] or -inf = [-1, 0].  Every operation rounds  *)
(* its exact result to the nearest float of MantBits significant bits,     *)
(* ties to even, as IEEE 754 does; f64 has 53 bits, the model fewer.  The  *)
(* exponent is unbounded (no overflow to infinity, no subnormals) and the  *)
(* sign of a zero is not kept.                                             *)
(***************************************************************************)
\* the significant bits of a float
MantBits == 4

PosInf == [n |-> 1, d |-> 0]
NegInf == [n |-> -1, d |-> 0]

is_nan(x) == x.d = 0 /\ x.n = 0
is_infinite(x) == x.d = 0 /\ x.n # 0
is_finite(x) == x.d # 0

Sign(k) == IF k < 0 THEN -1 ELSE IF k > 0 THEN 1 ELSE 0

RECURSIVE Pow2Int(_)
Pow2Int(k) == IF k = 0 THEN 1 ELSE 2 * Pow2Int(k - 1)

\* a / d (a, d > 0) rounded to an integer, ties to even
RoundHalfEven(a, d) ==
    LET q == a \div d
        r == a % d
    IN  IF 2 * r > d \/ (2 * r = d /\ q % 2 = 1) THEN q + 1 ELSE q

\* a / d (a, d > 0) rounded to bits significant bits
RECURSIVE RoundPos(_, _, _)
RoundPos(a, d, bits) ==
    IF a >= d * Pow2Int(bits) THEN
        LET half == RoundPos(a, 2 * d, bits) IN Rat(2 * half.n, half.d)
    ELSE IF a < d * Pow2Int(bits - 1) THEN
        LET twice == RoundPos(2 * a, d, bits) IN Rat(twice.n, 2 * twice.d)
    ELSE F(RoundHalfEven(a, d))

\* the float nearest to n / d (d # 0)
RoundF(n, d) ==
    IF n = 0
    THEN F(0)
    ELSE LET r == RoundPos(Abs(n), Abs(d), MantBits)
         IN  [n |-> Sign(n) * Sign(d) * r.n, d |-> r.d]

FNeg(x) == [n |-> -x.n, d |-> x.d]

FMul(x, y) ==
    IF is_nan(x) \/ is_nan(y) THEN NaN
    ELSE IF is_infinite(x) \/ is_infinite(y)
    THEN IF x.n = 0 \/ y.n = 0 THEN NaN ELSE [n |-> Sign(x.n) * Sign(y.n), d |-> 0]
    ELSE RoundF(x.n * y.n, x.d * y.d)

FDiv(x, y) ==
    IF is_nan(x) \/ is_nan(y) THEN NaN
    ELSE IF is_infinite(x)
    THEN IF is_infinite(y) THEN NaN
         ELSE [n |-> x.n * (IF y.n < 0 THEN -1 ELSE 1), d |-> 0]
    ELSE IF is_infinite(y) THEN F(0)
    ELSE IF y.n = 0
    THEN IF x.n = 0 THEN NaN ELSE [n |-> Sign(x.n), d |-> 0]
    ELSE RoundF(x.n * y.d, x.d * y.n)

FAdd(x, y) ==
    IF is_nan(x) \/ is_nan(y) THEN NaN
    ELSE IF is_infinite(x)
    THEN IF is_infinite(y) /\ x.n # y.n THEN NaN ELSE x
    ELSE IF is_infinite(y) THEN y
    ELSE RoundF(x.n * y.d + y.n * x.d, x.d * y.d)

FSub(x, y) == FAdd(x, FNeg(y))

\* x < y, x <= y for finite floats
FLt(x, y) == x.n * y.d < y.n * x.d
FLe(x, y) == x.n * y.d <= y.n * x.d

\* std::f64::consts::TAU: 2 pi = 6588397.3 / 2^20, rounded to a float
TAU == RoundF(6588397, 1048576)

(***************************************************************************)
(* Dates.  An Epoch is its Julian date in UTC, an exact rational number of *)
(* days (as_jde_utc_days; the f64 error at that size, 2^-31 days, is left  *)
(* out).  as_gregorian_utc is the proleptic Gregorian calendar.            *)
(***************************************************************************)
\* the largest integer not above the float x
Floor(x) == x.n \div x.d

\* exact sum and difference of finite values
RAdd(x, y) == Rat(x.n * y.d + y.n * x.d, x.d * y.d)
RSub(x, y) == Rat(x.n * y.d - y.n * x.d, x.d * y.d)

\* the Julian day number of the civil day an epoch lies in
JulianDayNumber(epoch) == Floor(RAdd(epoch, Rat(1, 2)))

\* Epoch::as_gregorian_utc: year, month and day of a Julian day number
Gregorian(jdn) ==
    LET l1 == jdn + 68569
        n == (4 * l1) \div 146097
        l2 == l1 - ((146097 * n + 3) \div 4)
        i == (4000 * (l2 + 1)) \div 1461001
        l3 == l2 - ((1461 * i) \div 4) + 31
        k == (80 * l3) \div 2447
        l4 == k \div 11
    IN  [year |-> 100 * (n - 49) + i + l4,
         month |-> k + 2 - 12 * l4,
         day |-> l3 - ((2447 * k) \div 80)]

\* the Julian date of a date string: its day at the time it names
JulianDateOf(date) ==
    LET a == IF date.month <= 2 THEN -1 ELSE 0
        jdn == ((1461 * (date.year + 4800 + a)) \div 4)
               + ((367 * (date.month - 2 - 12 * a)) \div 12)
               - ((3 * ((date.year + 4900 + a) \div 100)) \div 4)
               + date.day - 32075
    IN  RAdd(RSub(F(jdn), Rat(1, 2)), date.time)

\* get_truncated_date_string: "{year}-{month:02}-{day:02}T00:00:00.0"
get_truncated_date_string(epoch) ==
    LET g == Gregorian(JulianDayNumber(epoch))
    IN  [year |-> g.year, month |-> g.month, day |-> g.day, time |-> F(0)]

\* start_epoch.as_jde_utc_days().floor() + 0.5
jd_trunc(start) == RAdd(F(Floor(start)), Rat(1, 2))

\* the DATE parameter of a row: jd_frac as f32, a float of fewer bits
row_date(start, epoch) ==
    LET jd_frac == RSub(epoch, jd_trunc(start))
    IN  RoundF(jd_frac.n, jd_frac.d)

\* the ffpgpe calls with the DATE parameter in their rows
WithDate(calls, date) ==
    [i \in DOMAIN calls |->
        [calls[i] EXCEPT !.row = [baseline |-> calls[i].row.baseline,
                                  date |-> date,
                                  vis |-> calls[i].row.vis]]]

\* 2013-10-15 13:48:32 UTC, the start of the observation of the tests, to
\* the quarter of a day: 2456581.0 (noon)
StartOfTests == F(2456581)

(***************************************************************************)
(* UvfitsWriter::new                                                       *)
(***************************************************************************)
\* mutant: the row count is the sum of its factors
total_rows_sum(num_timesteps, num_baselines) == num_timesteps + num_baselines

\* let total_num_rows = num_timesteps * num_baselines
total_rows(num_timesteps, num_baselines) == num_timesteps * num_baselines

\* io: "ok", or where the first failing call is: "fail_create" in removing an
\* old file, converting the path or ffinit (before the assertion),
\* "fail_header" in ffphpr, ffclos, FitsFile::edit or a header key (after it).
\* A file left behind by a failed new is not kept in the model.
New(num_timesteps, num_baselines, start, io) ==
    /\ wpc = "none"
    /\ call' = [op |-> "new", num_timesteps |-> num_timesteps,
                num_baselines |-> num_baselines, start_epoch |-> start, io |-> io]
    /\ LET total == total_rows(num_timesteps, num_baselines)
       IN  IF io = "fail_create"
           THEN /\ res' = FitsError
                /\ UNCHANGED <<wpc, total_num_rows, groups, start_epoch, primary_header>>
           ELSE IF ~(total > 0)
           THEN /\ res' = Panic
                /\ wpc' = "panicked"
                /\ UNCHANGED <<total_num_rows, groups, start_epoch, primary_header>>
           ELSE IF io = "fail_header"
           THEN /\ res' = FitsError
                /\ UNCHANGED <<wpc, total_num_rows, groups, start_epoch, primary_header>>
           ELSE /\ res' = Ok
                /\ wpc' = "ready"
                /\ total_num_rows' = total
                /\ groups' = [g \in 1..total |-> 0]
                /\ start_epoch' = start
                /\ primary_header' = [written |-> TRUE,
                                      PZERO5 |-> jd_trunc(start),
                                      DATE_OBS |-> get_truncated_date_string(start)]
    /\ current_num_rows' = 0
    /\ succ' = 0
    /\ UNCHANGED <<ffpgpe, antenna_hdu, cvars, svars, rvars, pvars>>

(***************************************************************************)
(* UvfitsWriter::write_vis_row                                             *)
(***************************************************************************)
\* mutant: the row number is not checked at all
row_num_unchecked(current, total) == FALSE

\* mutant: the check is off by one and lets one row too many through
row_num_exceeded_late(current, total) == current > total

\* if self.current_num_rows + 1 > self.total_num_rows
row_num_exceeded(current, total) == current + 1 > total

\* mutant: the counter is not advanced
rows_written_stuck(current) == current

\* self.current_num_rows += 1
rows_written(current) == current + 1

\* mutant: the groups are counted from 0
group_index_from_zero(current) == current

\* the group of ffpgpe: self.current_num_rows as i64 + 1
group_index(current) == current + 1

\* mutant: the counter is advanced before the status of ffpgpe is checked
write_vis_row_counts_failures(current, total, args, fits_fails) ==
    IF row_num_exceeded(current, total)
    THEN [res |-> BadRowNum(current, total), cur |-> current, calls |-> <<>>]
    ELSE LET row == [baseline |-> encode_uvfits_baseline(args.tile_index1 + 1,
                                                         args.tile_index2 + 1),
                     vis |-> args.vis]
             c == [group |-> group_index(current), nelem |-> 5 + Len(args.vis),
                   row |-> row, ok |-> ~fits_fails]
         IN  [res |-> IF fits_fails THEN FitsError ELSE Ok,
              cur |-> rows_written(current), calls |-> <<c>>]

\* One call of write_vis_row on a writer with the given counters.
\* args = [tile_index1, tile_index2, vis]; fits_fails: ffpgpe sets a status.
\* Returns [res, cur, calls]: the result, the new current_num_rows and the
\* ffpgpe calls made.  The group parameters UU, VV and WW are floats computed
\* from uvw and are left out of the row; DATE is added to the row of a direct
\* call by WithDate, from the writer's start_epoch, and left out of the rows
\* of write_vis_marlu; a failed ffpgpe is taken to leave the group as it was.
write_vis_row(current, total, args, fits_fails) ==
    IF row_num_exceeded(current, total)
    THEN [res |-> BadRowNum(current, total), cur |-> current, calls |-> <<>>]
    ELSE LET row == [baseline |-> encode_uvfits_baseline(args.tile_index1 + 1,
                                                         args.tile_index2 + 1),
                     vis |-> args.vis]
             c == [group |-> group_index(current), nelem |-> 5 + Len(args.vis),
                   row |-> row, ok |-> ~fits_fails]
         IN  IF fits_fails
             THEN [res |-> FitsError, cur |-> current, calls |-> <<c>>]
             ELSE [res |-> Ok, cur |-> rows_written(current), calls |-> <<c>>]

\* the successful calls among calls
OkCalls(calls) == {i \in 1..Len(calls) : calls[i].ok}

\* the group table after the calls
Wrote(grp, calls) ==
    [g \in DOMAIN grp |->
        grp[g] + Cardinality({i \in OkCalls(calls) : calls[i].group = g})]

WriteVisRow(tile_index1, tile_index2, epoch, vis, fits_fails) ==
    /\ wpc = "ready"
    /\ call' = [op |-> "write_vis_row", cur0 |-> current_num_rows,
                tile_index1 |-> tile_index1, tile_index2 |-> tile_index2,
                epoch |-> epoch, vis |-> vis, fits_fails |-> fits_fails]
    /\ LET r == write_vis_row(current_num_rows, total_num_rows,
                              [tile_index1 |-> tile_index1,
                               tile_index2 |-> tile_index2, vis |-> vis],
                              fits_fails)
       IN  /\ res' = r.res
           /\ current_num_rows' = r.cur
           /\ ffpgpe' = WithDate(r.calls, row_date(start_epoch, epoch))
           /\ groups' = Wrote(groups, r.calls)
           /\ succ' = succ + Cardinality(OkCalls(r.calls))
    /\ UNCHANGED <<wpc, total_num_rows, antenna_hdu, start_epoch, primary_header,
                   cvars, svars, rvars, pvars>>

(***************************************************************************)
(* UvfitsWriter::write_vis_marlu                                           *)
(***************************************************************************)
\* mutant: the second check tests vis again
shape_error_vis_twice(vis_dim, weights_dim, dims) ==
    IF vis_dim # dims THEN BadArrayShape("vis")
    ELSE IF vis_dim # dims THEN BadArrayShape("weights")
    ELSE Ok

\* the two shape checks, vis first
shape_error(vis_dim, weights_dim, dims) ==
    IF vis_dim # dims THEN BadArrayShape("vis")
    ELSE IF weights_dim # dims THEN BadArrayShape("weights")
    ELSE Ok

\* the row loop from row i on: each row through write_vis_row, `?` returning
\* the first error; ffpgpe fails on row fail_at (0: on none)
RECURSIVE write_rows(_, _, _, _, _)
write_rows(current, total, rows, i, fail_at) ==
    IF i > Len(rows)
    THEN [res |-> Ok, cur |-> current, calls |-> <<>>]
    ELSE LET r == write_vis_row(current, total, rows[i], i = fail_at)
         IN  IF r.res.kind # "Ok"
             THEN r
             ELSE LET rest == write_rows(r.cur, total, rows, i + 1, fail_at)
                  IN  [res |-> rest.res, cur |-> rest.cur,
                       calls |-> r.calls \o rest.calls]

\* mutant: the remaining capacity is not asserted
capacity_unchecked(current, total, num_avg_rows) == FALSE

\* the negation of the asserted total_num_rows - current_num_rows >= num_avg_rows
capacity_short(current, total, num_avg_rows) == ~(total - current >= num_avg_rows)

\* mutant: a failed row loop takes the counter back to its value before the call
write_vis_marlu_rollback(current, total, ctx, vis_dim, weights_dim, pat, open_fails, fail_at) ==
    LET err == shape_error(vis_dim, weights_dim, sel_dims(ctx))
        num_avg_rows == num_avg_timesteps(ctx) * Len(ctx.sel_baselines)
    IN  IF err.kind # "Ok"
        THEN [res |-> err, cur |-> current, calls |-> <<>>]
        ELSE IF open_fails
        THEN [res |-> FitsError, cur |-> current, calls |-> <<>>]
        ELSE IF capacity_short(current, total, num_avg_rows)
        THEN [res |-> Panic, cur |-> current, calls |-> <<>>]
        ELSE LET r == write_rows(current, total, MarluRows(ctx, pat), 1, fail_at)
             IN  [res |-> r.res, calls |-> r.calls,
                  cur |-> IF r.res.kind = "Ok" THEN r.cur ELSE current]

\* One call of write_vis_marlu; vis_dim and weights_dim are vis.dim() and
\* weights.dim(), pat names the weight array, open_fails: self.open() fails.
\* tiles_xyz_geod is taken to hold every selected antenna.
write_vis_marlu(current, total, ctx, vis_dim, weights_dim, pat, open_fails, fail_at) ==
    LET err == shape_error(vis_dim, weights_dim, sel_dims(ctx))
        num_avg_rows == num_avg_timesteps(ctx) * Len(ctx.sel_baselines)
    IN  IF err.kind # "Ok"
        THEN [res |-> err, cur |-> current, calls |-> <<>>]
        ELSE IF open_fails
        THEN [res |-> FitsError, cur |-> current, calls |-> <<>>]
        ELSE IF capacity_short(current, total, num_avg_rows)
        THEN [res |-> Panic, cur |-> current, calls |-> <<>>]
        ELSE write_rows(current, total, MarluRows(ctx, pat), 1, fail_at)

WriteVisMarlu(ctx, vis_dim, weights_dim, pat, open_fails, fail_at) ==
    /\ wpc = "ready"
    /\ call' = [op |-> "write_vis_marlu", cur0 |-> current_num_rows,
                ctx |-> ctx, vis_dim |-> vis_dim, weights_dim |-> weights_dim,
                pat |-> pat, open_fails |-> open_fails, fail_at |-> fail_at]
    /\ LET r == write_vis_marlu(current_num_rows, total_num_rows, ctx, vis_dim,
                                weights_dim, pat, open_fails, fail_at)
       IN  /\ res' = r.res
           /\ current_num_rows' = r.cur
           /\ ffpgpe' = r.calls
           /\ groups' = Wrote(groups, r.calls)
           /\ succ' = succ + Cardinality(OkCalls(r.calls))
           /\ wpc' = IF r.res.kind = "Panic" THEN "panicked" ELSE wpc
    /\ UNCHANGED <<total_num_rows, antenna_hdu, start_epoch, primary_header,
                   cvars, svars, rvars, pvars>>

(***************************************************************************)
(* UvfitsWriter::write_uvfits_antenna_table                                *)
(***************************************************************************)
\* mutant: the table is refused only when no row at all was written
rows_incomplete_none(current, total) == current = 0 /\ total # 0

\* if self.current_num_rows != self.total_num_rows
rows_incomplete(current, total) == current # total

\* the width of the ANNAME column, of format "8A"
anname_width == 8

\* fits_write_col_str into a column of anname_width characters: a string is a
\* sequence of characters, the characters beyond the width are dropped
ffpcls(str) ==
    SubSeq(str, 1, IF Len(str) < anname_width THEN Len(str) ELSE anname_width)

\* the rows written by the loop over positions: ANNAME, STABXYZ, NOSTA
AntennaRows(antenna_names, positions, n) ==
    [i \in 1..n |-> [anname |-> ffpcls(antenna_names[i]), stabxyz |-> positions[i],
                     nosta |-> i]]

\* io: "ok", or the first failing call: "fail_open" (self.open()),
\* "fail_create" (ffcrtb or a string conversion before it), "fail_keys" (a
\* header key of the new HDU), "fail_row" (a column write of the first row).
\* self is moved into the call: the writer is gone afterwards.
WriteAntennaTable(antenna_names, positions, io) ==
    /\ wpc = "ready"
    /\ call' = [op |-> "write_uvfits_antenna_table", cur0 |-> current_num_rows,
                antenna_names |-> antenna_names, positions |-> positions,
                io |-> io]
    /\ wpc' = "consumed"
    /\ IF rows_incomplete(current_num_rows, total_num_rows)
       THEN /\ res' = NotEnoughRowsWritten(current_num_rows, total_num_rows)
            /\ UNCHANGED antenna_hdu
       ELSE IF io = "fail_open" \/ io = "fail_create"
       THEN /\ res' = FitsError
            /\ UNCHANGED antenna_hdu
       ELSE IF io = "fail_keys" \/ (io = "fail_row" /\ Len(positions) > 0)
       THEN /\ res' = FitsError
            /\ antenna_hdu' = [created |-> TRUE, rows |-> <<>>]
       ELSE IF Len(positions) > Len(antenna_names)
       THEN \* c_antenna_names[i] is out of bounds at i = antenna_names.len()
            /\ res' = Panic
            /\ antenna_hdu' = [created |-> TRUE,
                               rows |-> AntennaRows(antenna_names, positions,
                                                    Len(antenna_names))]
       ELSE /\ res' = Ok
            /\ antenna_hdu' = [created |-> TRUE,
                               rows |-> AntennaRows(antenna_names, positions,
                                                    Len(positions))]
    /\ ffpgpe' = <<>>
    /\ UNCHANGED <<total_num_rows, current_num_rows, groups, succ, start_epoch,
                   primary_header, cvars, svars, rvars, pvars>>

(***************************************************************************)
(* Spec: the inputs and the next-state relation                            *)
(***************************************************************************)
\* zero-indexed tile pairs given to write_vis_row; 255 is the first tile whose
\* one-indexed number takes the Miriad branch of the encoding
TilePairs == {<<0, 1>>, <<1, 255>>}

\* visibility buffers given to write_vis_row
VisRowSamples == {<<F(1), F(2), F(3)>>}

\* the first n selected baselines: (0,1), (0,2), ...
Baselines(n) == Table([i \in 1..n |-> <<0, i>>])

\* the contexts of Spec: one channel, no averaging or averaging in time only
RowContexts ==
    {[num_sel_timesteps |-> nt, num_sel_chans |-> 1,
      sel_baselines |-> Baselines(nb), avg_time |-> at, avg_freq |-> 1,
      num_vis_pols |-> 4] :
        nt \in 1..MaxTimesteps, nb \in 0..MaxBaselines, at \in {1, MaxAvg}}

\* the contexts of SpecAvg: at least one baseline, averaging in time and frequency
AvgContexts ==
    {[num_sel_timesteps |-> nt, num_sel_chans |-> nc,
      sel_baselines |-> Baselines(nb), avg_time |-> at, avg_freq |-> af,
      num_vis_pols |-> 4] :
        nt \in 1..MaxTimesteps, nc \in 1..MaxChans, nb \in 1..MaxBaselines,
        at \in 1..MaxAvg, af \in 1..MaxAvg}

\* an array shape that differs from the context's in the first axis
WrongDims(ctx) ==
    <<ctx.num_sel_timesteps + 1, ctx.num_sel_chans, Len(ctx.sel_baselines)>>

\* the environments offered to one write_vis_marlu call:
\* <<vis.dim(), weights.dim(), open fails, failing row>>; ffpgpe fails on no
\* row or on the last
Faults(ctx) ==
    {<<WrongDims(ctx), WrongDims(ctx), TRUE, 0>>,
     <<sel_dims(ctx), WrongDims(ctx), TRUE, 0>>,
     <<sel_dims(ctx), sel_dims(ctx), TRUE, 0>>}
    \cup {<<sel_dims(ctx), sel_dims(ctx), FALSE, k>> :
            k \in {0, num_avg_timesteps(ctx) * Len(ctx.sel_baselines)}}

\* antenna names, each a sequence of characters: "Tile1", "Tile00002" (longer
\* than the ANNAME column), "Tile3", "Tile4"
TileNames ==
    << <<"T", "i", "l", "e", "1">>,
       <<"T", "i", "l", "e", "0", "0", "0", "0", "2">>,
       <<"T", "i", "l", "e", "3">>,
       <<"T", "i", "l", "e", "4">> >>

NameLists == {SubSeq(TileNames, 1, n) : n \in 0..MaxTiles}

PositionLists == {[i \in 1..n |-> <<i - 1, 2 * (i - 1), 3 * (i - 1)>>] : n \in 0..MaxTiles}

\* the arguments and environments offered to write_uvfits_antenna_table:
\* every pair of lists with no failure, the longest lists with each failure
AntennaTables ==
    (NameLists \X PositionLists \X {"ok"})
    \cup {<<SubSeq(TileNames, 1, MaxTiles),
            [i \in 1..MaxTiles |-> <<i - 1, 2 * (i - 1), 3 * (i - 1)>>], io>> :
            io \in {"fail_open", "fail_create", "fail_keys", "fail_row"}}

Init == CodecIdle /\ WriterIdle /\ SelIdle /\ ReadIdle /\ PosIdle

Next ==
    \/ \E nt \in 0..MaxTimesteps, nb \in 0..MaxBaselines,
          io \in {"ok", "fail_create", "fail_header"} : New(nt, nb, StartOfTests, io)
    \/ \E tp \in TilePairs, vis \in VisRowSamples, fits_fails \in BOOLEAN :
          WriteVisRow(tp[1], tp[2], StartOfTests, vis, fits_fails)
    \/ \E ctx \in RowContexts : \E f \in Faults(ctx) :
          WriteVisMarlu(ctx, f[1], f[2], "equal", f[3], f[4])
    \/ \E t \in AntennaTables : WriteAntennaTable(t[1], t[2], t[3])

Spec == Init /\ [][Next]_vars

(***************************************************************************)
(* SpecAvg: a writer made for a context by from_marlu, then one            *)
(* write_vis_marlu call on the fresh writer, over all sampled contexts and *)
(* weight arrays, with no failure of the FITS library.                     *)
(***************************************************************************)
\* UvfitsWriter::from_marlu: new for the context's averaged dimensions
FromMarlu(vis_ctx, io) ==
    New(num_avg_timesteps(vis_ctx), Len(vis_ctx.sel_baselines), StartOfTests, io)

NextAvg ==
    \/ \E ctx \in AvgContexts : FromMarlu(ctx, "ok")
    \/ \E ctx \in AvgContexts, pat \in WeightPatterns :
          /\ current_num_rows = 0
          /\ WriteVisMarlu(ctx, sel_dims(ctx), sel_dims(ctx), pat, FALSE, 0)

SpecAvg == Init /\ [][NextAvg]_vars

(***************************************************************************)
(* usize arithmetic.  A usize is a natural number held as its digits in    *)
(* base Kibi, least significant first, with no leading zero digit (<<>> is *)
(* 0), so that products wider than the machine word can be formed and      *)
(* compared with 2^UsizeBits.                                              *)
(***************************************************************************)
\* 1024_usize
Kibi == 1024
\* the width of usize on the 64-bit targets the library is built for
UsizeBits == 64
\* size_of::<Jones<f32>>(), size_of::<f32>(), size_of::<bool>()
SizeOfJones == 32
SizeOfF32 == 4
SizeOfBool == 1

\* the digits without leading zeros
RECURSIVE Strip(_)
Strip(d) ==
    IF d = <<>> \/ d[Len(d)] # 0 THEN d ELSE Strip(SubSeq(d, 1, Len(d) - 1))

\* the usize of a small number
RECURSIVE Big(_)
Big(n) == IF n = 0 THEN <<>> ELSE <<n % Kibi>> \o Big(n \div Kibi)

\* the small number of a usize below Kibi^2
Small(a) == IF Len(a) = 0 THEN 0 ELSE IF Len(a) = 1 THEN a[1] ELSE a[1] + Kibi * a[2]

Digit(a, i) == IF i >= 1 /\ i <= Len(a) THEN a[i] ELSE 0

\* 2^k
Pow2(k) ==
    Table([i \in 1..((k \div 10) + 1) |->
              IF i = (k \div 10) + 1 THEN 2^(k % 10) ELSE 0])

\* a < b
RECURSIVE BigLessFrom(_, _, _)
BigLessFrom(a, b, i) ==
    IF i = 0 THEN FALSE
    ELSE IF a[i] # b[i] THEN a[i] < b[i]
    ELSE BigLessFrom(a, b, i - 1)

BigLess(a, b) ==
    IF Len(a) # Len(b) THEN Len(a) < Len(b) ELSE BigLessFrom(a, b, Len(a))

\* a - b for a >= b
RECURSIVE BigSubFrom(_, _, _, _)
BigSubFrom(a, b, i, borrow) ==
    IF i > Len(a) THEN <<>>
    ELSE LET d == a[i] - Digit(b, i) - borrow
         IN  IF d < 0
             THEN <<d + Kibi>> \o BigSubFrom(a, b, i + 1, 1)
             ELSE <<d>> \o BigSubFrom(a, b, i + 1, 0)

BigSub(a, b) == Strip(BigSubFrom(a, b, 1, 0))

\* the sum of a[i] * b[k - i + 1] over i = i..Len(a)
RECURSIVE Column(_, _, _, _)
Column(a, b, k, i) ==
    IF i > Len(a) \/ i > k THEN 0
    ELSE a[i] * Digit(b, k - i + 1) + Column(a, b, k, i + 1)

RECURSIVE BigMulFrom(_, _, _, _)
BigMulFrom(a, b, k, carry) ==
    IF k > Len(a) + Len(b) THEN <<>>
    ELSE LET s == carry + Column(a, b, k, 1)
         IN  <<s % Kibi>> \o BigMulFrom(a, b, k + 1, s \div Kibi)

\* the exact product a * b
BigMul(a, b) == Strip(BigMulFrom(a, b, 1, 0))

\* a mod 2^k
ModPow2(a, k) ==
    Strip(Table([i \in 1..((k \div 10) + 1) |->
              IF i = (k \div 10) + 1 THEN Digit(a, i) % (2^(k % 10))
              ELSE Digit(a, i)]))

\* a / Kibi^n
DivKibi(a, n) == IF Len(a) <= n THEN <<>> ELSE SubSeq(a, n + 1, Len(a))

\* a * b in usize: with overflow checks (a debug build) an overflowing
\* product panics, without them (a release build) it wraps
usize_mul(a, b, build) ==
    LET p == BigMul(a, b)
    IN  IF BigLess(p, Pow2(UsizeBits))
        THEN [kind |-> "ok", val |-> p]
        ELSE IF build = "debug"
        THEN [kind |-> "panic", val |-> <<>>]
        ELSE [kind |-> "ok", val |-> ModPow2(p, UsizeBits)]

\* Range<usize>::len()
range_len(r) == IF BigLess(r.start, r.end) THEN BigSub(r.end, r.start) ELSE <<>>

(***************************************************************************)
(* VisSelection: get_shape, estimate_bytes_best and the allocators         *)
(* (src/selection.rs).  build is "debug" (overflow checks) or "release".   *)
(***************************************************************************)
PanicOutcome == [kind |-> "panic"]

\* mutant: the fine channels per coarse channel are left out
get_shape_coarse_only(sel, fine_chans_per_coarse, build) ==
    [kind |-> "ok",
     shape |-> <<range_len(sel.timestep_range), range_len(sel.coarse_chan_range),
                 Big(Len(sel.baseline_idxs))>>]

\* (num_timesteps, num_chans, num_baselines), or the panic of the product
get_shape(sel, fine_chans_per_coarse, build) ==
    LET num_chans == usize_mul(range_len(sel.coarse_chan_range),
                               fine_chans_per_coarse, build)
        num_baselines == Big(Len(sel.baseline_idxs))
        num_timesteps == range_len(sel.timestep_range)
    IN  IF num_chans.kind = "panic"
        THEN PanicOutcome
        ELSE [kind |-> "ok",
              shape |-> <<num_timesteps, num_chans.val, num_baselines>>]

\* a * b * c, left to right
usize_mul3(a, b, c, build) ==
    LET ab == usize_mul(a, b, build)
    IN  IF ab.kind = "panic" THEN ab ELSE usize_mul(ab.val, c, build)

\* shape.0 * shape.1 * shape.2 * (32 + 4 + 1)
estimate_bytes_best(sel, fine_chans_per_coarse, build) ==
    LET s == get_shape(sel, fine_chans_per_coarse, build)
    IN  IF s.kind = "panic" THEN s
        ELSE LET n == usize_mul3(s.shape[1], s.shape[2], s.shape[3], build)
             IN  IF n.kind = "panic" THEN n
                 ELSE usize_mul(n.val, Big(SizeOfJones + SizeOfF32 + SizeOfBool),
                                build)

\* Vec::try_reserve_exact(num_elems) for elements of elem_size bytes: more
\* than isize::MAX bytes is a capacity overflow, no element needs no memory,
\* anything else is up to the allocator (reserve_ok)
try_reserve_exact(num_elems, elem_size, reserve_ok) ==
    IF num_elems = <<>> THEN TRUE
    ELSE IF ~BigLess(BigMul(num_elems, Big(elem_size)), Pow2(UsizeBits - 1)) THEN FALSE
    ELSE reserve_ok

\* the product of the axis lengths that are not zero
NonZeroProduct(shape) ==
    LET nz(x) == IF x = <<>> THEN Big(1) ELSE x
    IN  BigMul(BigMul(nz(shape[1]), nz(shape[2])), nz(shape[3]))

\* Array3::from_shape_vec(shape, v) is Ok: the non-zero axis lengths multiply
\* to at most isize::MAX and the shape holds v.len() elements
from_shape_vec_ok(shape, len) ==
    /\ BigLess(NonZeroProduct(shape), Pow2(UsizeBits - 1))
    /\ BigMul(BigMul(shape[1], shape[2]), shape[3]) = len

\* the else branch: estimate_bytes_best(f) / 1024_usize.pow(3)
need_gib_of_selection(sel, elem_size, fine_chans_per_coarse, build) ==
    LET e == estimate_bytes_best(sel, fine_chans_per_coarse, build)
    IN  IF e.kind = "panic" THEN PanicOutcome
        ELSE [kind |-> "InsufficientMemory", need_gib |-> DivKibi(e.val, 3)]

\* allocate_jones (elem_size 32), allocate_flags (1), allocate_weights (4)
allocate(sel, elem_size, fine_chans_per_coarse, build, reserve_ok) ==
    LET s == get_shape(sel, fine_chans_per_coarse, build)
    IN  IF s.kind = "panic" THEN PanicOutcome
        ELSE LET n == usize_mul3(s.shape[1], s.shape[2], s.shape[3], build)
             IN  IF n.kind = "panic" THEN PanicOutcome
                 ELSE IF try_reserve_exact(n.val, elem_size, reserve_ok)
                 THEN IF from_shape_vec_ok(s.shape, n.val)
                      THEN [kind |-> "Ok", dim |-> s.shape]
                      ELSE PanicOutcome
                 ELSE need_gib_of_selection(sel, elem_size,
                                            fine_chans_per_coarse, build)

\* the element size of each allocator
ElemSize(what) ==
    CASE what = "allocate_jones" -> SizeOfJones
      [] what = "allocate_flags" -> SizeOfBool
      [] OTHER -> SizeOfF32

(***************************************************************************)
(* SpecSel: a VisSelection whose public fields are set by the caller, and  *)
(* get_shape and the allocators called on it.                              *)
(***************************************************************************)
Range(s, e) == [start |-> s, end |-> e]

\* ranges of a few timesteps, an empty reversed one, and two huge ones
SelTimestepRanges ==
    {Range(Big(0), Big(1)), Range(Big(1), Big(1 + MaxTimesteps)),
     Range(Big(MaxTimesteps), Big(1)),
     Range(Big(0), Pow2(32)), Range(Big(1), Pow2(62))}

SelCoarseChanRanges ==
    {Range(Big(0), Big(1)), Range(Big(1), Big(1 + MaxChans)),
     Range(Big(1), Big(1)), Range(Big(0), Pow2(32))}

SelBaselineIdxs == {Table([i \in 1..n |-> i - 1]) : n \in 0..MaxBaselines}

FineChansSamples == {Big(MaxChans), Pow2(32)}

Builds == {"debug", "release"}

SetTimestepRange(r) ==
    /\ vis_sel' = [vis_sel EXCEPT !.timestep_range = r]
    /\ scall' = [op |-> "set"]
    /\ sres' = [kind |-> "none"]
    /\ UNCHANGED <<cvars, wvars, rvars, pvars>>

SetCoarseChanRange(r) ==
    /\ vis_sel' = [vis_sel EXCEPT !.coarse_chan_range = r]
    /\ scall' = [op |-> "set"]
    /\ sres' = [kind |-> "none"]
    /\ UNCHANGED <<cvars, wvars, rvars, pvars>>

SetBaselineIdxs(idxs) ==
    /\ vis_sel' = [vis_sel EXCEPT !.baseline_idxs = idxs]
    /\ scall' = [op |-> "set"]
    /\ sres' = [kind |-> "none"]
    /\ UNCHANGED <<cvars, wvars, rvars, pvars>>

GetShape(fine_chans_per_coarse, build) ==
    /\ scall' = [op |-> "get_shape", f |-> fine_chans_per_coarse, build |-> build]
    /\ sres' = get_shape(vis_sel, fine_chans_per_coarse, build)
    /\ UNCHANGED <<vis_sel, cvars, wvars, rvars, pvars>>

Allocate(what, fine_chans_per_coarse, build, reserve_ok) ==
    /\ scall' = [op |-> what, f |-> fine_chans_per_coarse, build |-> build,
                 reserve_ok |-> reserve_ok]
    /\ sres' = allocate(vis_sel, ElemSize(what), fine_chans_per_coarse, build,
                        reserve_ok)
    /\ UNCHANGED <<vis_sel, cvars, wvars, rvars, pvars>>

NextSel ==
    \/ \E r \in SelTimestepRanges : SetTimestepRange(r)
    \/ \E r \in SelCoarseChanRanges : SetCoarseChanRange(r)
    \/ \E idxs \in SelBaselineIdxs : SetBaselineIdxs(idxs)
    \/ \E f \in FineChansSamples, build \in Builds : GetShape(f, build)
    \/ \E what \in {"allocate_jones", "allocate_flags", "allocate_weights"},
          f \in FineChansSamples, build \in Builds, reserve_ok \in BOOLEAN :
          Allocate(what, f, build, reserve_ok)

SpecSel == Init /\ [][NextSel]_vars

(***************************************************************************)
(* VisSelection::from_mwalib.  Of the CorrelatorContext the model keeps    *)
(*   [common_timestep_indices, provided_timestep_indices,                  *)
(*    common_coarse_chan_indices, num_baselines,                           *)
(*    num_corr_fine_chans_per_coarse, hdus]                                *)
(* where hdus[<<timestep, coarse_chan>>] is what reading that HDU gives.   *)
(* mwalib keeps the index lists ascending and the common timesteps among   *)
(* the provided ones.  The hdu_info text of the errors is left out.        *)
(***************************************************************************)
\* the selection written as VisSelection { .. }
Selection(t0, t1, c0, c1, nb) ==
    [timestep_range |-> Range(Big(t0), Big(t1)),
     coarse_chan_range |-> Range(Big(c0), Big(c1)),
     baseline_idxs |-> Table([i \in 1..nb |-> i - 1])]

\* mutant: the timesteps stop at the last common one
from_mwalib_last_common(ctx) ==
    LET ct == ctx.common_timestep_indices
        cc == ctx.common_coarse_chan_indices
    IN  IF Len(ct) = 0 \/ Len(cc) = 0
        THEN [kind |-> "NoCommonTimesteps"]
        ELSE [kind |-> "Ok",
              sel |-> Selection(ct[1], ct[Len(ct)] + 1, cc[1], cc[Len(cc)] + 1,
                                ctx.num_baselines)]

from_mwalib(ctx) ==
    LET ct == ctx.common_timestep_indices
        pt == ctx.provided_timestep_indices
        cc == ctx.common_coarse_chan_indices
    IN  IF Len(ct) > 0 /\ Len(pt) > 0 /\ ct[1] <= pt[Len(pt)]
        THEN IF Len(cc) > 0 /\ cc[1] <= cc[Len(cc)]
             THEN [kind |-> "Ok",
                   sel |-> Selection(ct[1], pt[Len(pt)] + 1, cc[1], cc[Len(cc)] + 1,
                                     ctx.num_baselines)]
             ELSE [kind |-> "NoCommonTimesteps"]
        ELSE IF Len(pt) = 0
        THEN [kind |-> "NoProvidedTimesteps"]
        ELSE [kind |-> "NoCommonTimesteps"]

\* the members of a set of numbers in ascending order
RECURSIVE Ascending(_)
Ascending(set) ==
    IF set = {} THEN <<>>
    ELSE LET lo == CHOOSE x \in set : \A y \in set : x <= y
         IN  <<lo>> \o Ascending(set \ {lo})

\* the contexts of SpecFrom
FromContexts ==
    {[common_timestep_indices |-> Ascending(ct),
      provided_timestep_indices |-> Ascending(pt),
      common_coarse_chan_indices |-> Ascending(cc),
      num_baselines |-> nb,
      num_corr_fine_chans_per_coarse |-> 1,
      hdus |-> <<>>] :
        pt \in SUBSET (0..MaxTimesteps), ct \in SUBSET (0..MaxTimesteps),
        cc \in SUBSET (0..MaxChans), nb \in {0, MaxBaselines}}

InitFrom ==
    /\ CodecIdle
    /\ WriterIdle
    /\ PosIdle
    /\ SelIdle
    /\ corr_ctx \in {c \in FromContexts :
            \A i \in 1..Len(c.common_timestep_indices) :
                \E j \in 1..Len(c.provided_timestep_indices) :
                    c.provided_timestep_indices[j] = c.common_timestep_indices[i]}
    /\ jones_array = [dim |-> <<>>, data |-> <<>>]
    /\ flag_array = [dim |-> <<>>, data |-> <<>>]
    /\ tasks = <<>>
    /\ reads = <<>>
    /\ touched = <<>>

FromMwalib ==
    /\ scall = NoCall
    /\ scall' = [op |-> "from_mwalib"]
    /\ LET r == from_mwalib(corr_ctx)
       IN  /\ sres' = [kind |-> r.kind]
           /\ vis_sel' = IF r.kind = "Ok" THEN r.sel ELSE vis_sel
    /\ UNCHANGED <<cvars, wvars, rvars, pvars>>

NextFrom == FromMwalib

SpecFrom == InitFrom /\ [][NextFrom]_vars

(***************************************************************************)
(* VisSelection::read_mwalib.  The arrays are [dim, data], data a function *)
(* of <<timestep, channel, baseline>> positions from 0.  A Jones value is  *)
(* zero, stale (whatever the caller left there) or the floats off .. off+7 *)
(* of the HDU of timestep ts and coarse channel cc.  Each step of a task   *)
(* is one pass of its timestep loop.                                       *)
(***************************************************************************)
\* Jones::default()
JonesZero == [kind |-> "zero", ts |-> 0, cc |-> 0, off |-> 0]

\* what an earlier use of the array left in it
JonesStale == [kind |-> "stale", ts |-> 0, cc |-> 0, off |-> 0]

\* Jones::from of floats off .. off + 7 of the HDU buffer
JonesFrom(ts, cc, off) == [kind |-> "hdu", ts |-> ts, cc |-> cc, off |-> off]

\* let floats_per_chan = 8
floats_per_chan == 8

\* the positions of an array of the given dimensions
Elems(dim) ==
    (0..(Small(dim[1]) - 1)) \X (0..(Small(dim[2]) - 1)) \X (0..(Small(dim[3]) - 1))

\* an array of the given dimensions holding v everywhere
Filled(dim, v) == [dim |-> dim, data |-> Table([e \in Elems(dim) |-> v])]

\* mutant: flag_array is checked before jones_array
read_shape_error_flag_first(jones_dim, flag_dim, shape) ==
    IF flag_dim # shape THEN BadArrayShape("flag_array")
    ELSE IF jones_dim # shape THEN BadArrayShape("jones_array")
    ELSE Ok

\* the two shape checks, jones_array first
read_shape_error(jones_dim, flag_dim, shape) ==
    IF jones_dim # shape THEN BadArrayShape("jones_array")
    ELSE IF flag_dim # shape THEN BadArrayShape("flag_array")
    ELSE Ok

\* mutant: a missing HDU is returned as an error like any other
read_arm_no_data_fatal(outcome) ==
    CASE outcome = "ok" -> "store"
      [] OTHER -> "fail"

\* mutant: every error is taken for a missing HDU
read_arm_all_flagged(outcome) ==
    CASE outcome = "ok" -> "store"
      [] OTHER -> "flag"

\* the arms of the match on read_by_baseline_into_buffer's result
read_arm(outcome) ==
    CASE outcome = "ok" -> "store"
      [] outcome = "nodata" -> "flag"
      [] OTHER -> "fail"

\* mutant: a chunk reaches back over the chunks before it
chunk_chans_overlapping(i, fine_chans_per_coarse, num_chans) ==
    {c \in 0..(num_chans - 1) : c \div fine_chans_per_coarse <= i - 1}

\* the channels of the i-th chunk (i from 1) of axis_chunks_iter_mut(Axis(1), f)
chunk_chans(i, fine_chans_per_coarse, num_chans) ==
    {c \in 0..(num_chans - 1) : c \div fine_chans_per_coarse = i - 1}

\* the selection and the context in small numbers
sel_timestep_idx(t) == Small(vis_sel.timestep_range.start) + t
sel_coarse_chan_idx(i) == Small(vis_sel.coarse_chan_range.start) + i - 1
sel_num_timesteps == Small(range_len(vis_sel.timestep_range))
sel_num_coarse_chans == Small(range_len(vis_sel.coarse_chan_range))

\* mutant: the baselines are taken from the front of the buffer, in the
\* buffer's order, whatever baseline_idxs names
StoreHdu_buffer_order(arr, i, t) ==
    LET f == corr_ctx.num_corr_fine_chans_per_coarse
        floats_per_baseline == floats_per_chan * f
        chans == chunk_chans(i, f, Small(arr.dim[2]))
    IN  [arr EXCEPT !.data = Table([e \in DOMAIN arr.data |->
            IF e[1] = t /\ e[2] \in chans /\ e[3] < Len(vis_sel.baseline_idxs)
            THEN JonesFrom(sel_timestep_idx(t), sel_coarse_chan_idx(i),
                           e[3] * floats_per_baseline
                           + (e[2] % f) * floats_per_chan)
            ELSE arr.data[e]])]

\* the Ok arm: jones_array of task i, timestep position t, from the HDU buffer
StoreHdu(arr, i, t) ==
    LET f == corr_ctx.num_corr_fine_chans_per_coarse
        floats_per_baseline == floats_per_chan * f
        chans == chunk_chans(i, f, Small(arr.dim[2]))
    IN  [arr EXCEPT !.data = Table([e \in DOMAIN arr.data |->
            IF e[1] = t /\ e[2] \in chans /\ e[3] < Len(vis_sel.baseline_idxs)
            THEN JonesFrom(sel_timestep_idx(t), sel_coarse_chan_idx(i),
                           vis_sel.baseline_idxs[e[3] + 1] * floats_per_baseline
                           + (e[2] % f) * floats_per_chan)
            ELSE arr.data[e]])]

\* the NoDataForTimeStepCoarseChannel arm: flag_array.fill(true)
FillFlags(arr, i, t) ==
    LET chans == chunk_chans(i, corr_ctx.num_corr_fine_chans_per_coarse,
                            Small(arr.dim[2]))
    IN  [arr EXCEPT !.data = Table([e \in DOMAIN arr.data |->
            IF e[1] = t /\ e[2] \in chans THEN TRUE ELSE arr.data[e]])]

\* the elements an arm writes, noted as written by task i
Touch(i, t, arm) ==
    LET f == corr_ctx.num_corr_fine_chans_per_coarse
        chans == chunk_chans(i, f, Small(jones_array.dim[2]))
    IN  Table([e \in DOMAIN touched |->
            IF /\ e[1] = t
               /\ e[2] \in chans
               /\ arm = "store" => e[3] < Len(vis_sel.baseline_idxs)
            THEN touched[e] \cup {i}
            ELSE touched[e]])

\* the call up to the parallel loop: the shape checks, then one task per
\* selected coarse channel
ReadMwalib ==
    /\ scall = NoCall
    /\ scall' = [op |-> "read_mwalib", jones0 |-> jones_array, flag0 |-> flag_array]
    /\ LET shape == get_shape(vis_sel, Big(corr_ctx.num_corr_fine_chans_per_coarse),
                              "debug").shape
           err == read_shape_error(jones_array.dim, flag_array.dim, shape)
       IN  IF err.kind # "Ok"
           THEN /\ sres' = err
                /\ UNCHANGED <<tasks, touched>>
           ELSE /\ sres' = [kind |-> "running"]
                /\ tasks' = Table([i \in 1..sel_num_coarse_chans |->
                                      [pc |-> "pending", t |-> 0]])
                /\ touched' = Table([e \in Elems(shape) |-> {}])
    /\ UNCHANGED <<vis_sel, corr_ctx, jones_array, flag_array, reads, cvars, wvars, pvars>>

\* one pass of task i's timestep loop (the first one starts the task)
TaskStep(i) ==
    /\ sres.kind = "running"
    /\ i \in DOMAIN tasks
    /\ tasks[i].pc \in {"pending", "running"}
    /\ LET t == tasks[i].t
           pair == <<sel_timestep_idx(t), sel_coarse_chan_idx(i)>>
           arm == read_arm(corr_ctx.hdus[pair])
           next == IF t + 1 = sel_num_timesteps THEN "done" ELSE "running"
       IN  IF t >= sel_num_timesteps
           THEN /\ tasks' = [tasks EXCEPT ![i].pc = "done"]
                /\ UNCHANGED <<reads, jones_array, flag_array, touched>>
           ELSE /\ reads' = reads \cup {pair}
                /\ CASE arm = "store" ->
                          /\ jones_array' = StoreHdu(jones_array, i, t)
                          /\ touched' = Touch(i, t, arm)
                          /\ tasks' = [tasks EXCEPT ![i] = [pc |-> next, t |-> t + 1]]
                          /\ UNCHANGED flag_array
                     [] arm = "flag" ->
                          /\ flag_array' = FillFlags(flag_array, i, t)
                          /\ touched' = Touch(i, t, arm)
                          /\ tasks' = [tasks EXCEPT ![i] = [pc |-> next, t |-> t + 1]]
                          /\ UNCHANGED jones_array
                     [] OTHER ->
                          /\ tasks' = [tasks EXCEPT ![i] = [pc |-> "failed", t |-> t]]
                          /\ UNCHANGED <<jones_array, flag_array, touched>>
    /\ UNCHANGED <<vis_sel, scall, sres, corr_ctx, cvars, wvars, pvars>>

\* try_for_each stops handing out chunks once a task has failed: a task not
\* yet started may never run
TaskSkip(i) ==
    /\ sres.kind = "running"
    /\ i \in DOMAIN tasks
    /\ tasks[i].pc = "pending"
    /\ \E j \in DOMAIN tasks : tasks[j].pc = "failed"
    /\ tasks' = [tasks EXCEPT ![i].pc = "skipped"]
    /\ UNCHANGED <<vis_sel, scall, sres, corr_ctx, jones_array, flag_array,
                   reads, touched, cvars, wvars, pvars>>

\* the error of a failed task: the read that failed
TaskError(i) ==
    [kind |-> "Mwalib", ts |-> sel_timestep_idx(tasks[i].t),
     cc |-> sel_coarse_chan_idx(i)]

\* try_for_each(..)? and the final Ok(()): every task is over; the error of
\* one of the failed tasks is returned
ReadReturn ==
    /\ sres.kind = "running"
    /\ \A i \in DOMAIN tasks : tasks[i].pc \in {"done", "failed", "skipped"}
    /\ IF \E i \in DOMAIN tasks : tasks[i].pc = "failed"
       THEN \E i \in DOMAIN tasks :
               /\ tasks[i].pc = "failed"
               /\ sres' = TaskError(i)
       ELSE sres' = [kind |-> "Ok"]
    /\ UNCHANGED <<vis_sel, scall, corr_ctx, jones_array, flag_array, tasks,
                   reads, touched, cvars, wvars, pvars>>

(***************************************************************************)
(* The specification of read_mwalib: one call on a selection, a context    *)
(* whose HDUs are there, missing or unreadable, and arrays of the caller.  *)
(***************************************************************************)
\* the fine channels per coarse channel of the contexts
MaxFine == 2

\* the outcomes of read_by_baseline_into_buffer
HduOutcomes == {"ok", "nodata", "error"}

\* the baseline selections: one baseline, or two out of three
ReadBaselineIdxs == {Table(<<1>>), Table(<<0, 2>>)}

\* the HDU tables with at most two HDUs missing or unreadable
HduTables(tss, ccs) ==
    {h \in [tss \X ccs -> HduOutcomes] :
        Cardinality({p \in tss \X ccs : h[p] # "ok"}) <= 2}

\* a shape of the wrong size: the channel axis counts coarse channels
WrongDim(shape, num_coarse) == <<shape[1], Big(num_coarse), shape[3]>>

InitRead ==
    /\ CodecIdle
    /\ WriterIdle
    /\ PosIdle
    /\ scall = NoCall
    /\ sres = [kind |-> "none"]
    /\ tasks = <<>>
    /\ reads = {}
    /\ touched = <<>>
    /\ \E nt \in 0..MaxTimesteps, nc \in 1..MaxChans, bls \in ReadBaselineIdxs :
          /\ vis_sel = [timestep_range |-> Range(Big(1), Big(1 + nt)),
                        coarse_chan_range |-> Range(Big(1), Big(1 + nc)),
                        baseline_idxs |-> bls]
          /\ \E h \in HduTables(1..nt, 1..nc) :
                corr_ctx = [common_timestep_indices |-> <<>>,
                            provided_timestep_indices |-> <<>>,
                            common_coarse_chan_indices |-> <<>>,
                            num_baselines |-> MaxBaselines + 1,
                            num_corr_fine_chans_per_coarse |-> MaxFine,
                            hdus |-> Table(h)]
          /\ LET shape == <<Big(nt), Big(nc * MaxFine), Big(Len(bls))>>
                 wrong == WrongDim(shape, nc)
             IN  \/ /\ jones_array \in {Filled(shape, JonesZero),
                                        Filled(shape, JonesStale)}
                    /\ flag_array = Filled(shape, FALSE)
                 \/ /\ jones_array \in {Filled(shape, JonesZero),
                                        Filled(wrong, JonesZero)}
                    /\ flag_array = Filled(wrong, FALSE)
                 \/ /\ jones_array = Filled(wrong, JonesZero)
                    /\ flag_array = Filled(shape, FALSE)

NextRead ==
    \/ ReadMwalib
    \/ \E i \in 1..MaxChans : TaskStep(i)
    \/ \E i \in 1..MaxChans : TaskSkip(i)
    \/ ReadReturn

SpecRead == InitRead /\ [][NextRead]_vars

(***************************************************************************)
(* LMN and LmnRime (src/pos/lmn.rs)                                        *)
(***************************************************************************)
\* LMN::prepare_for_rime
prepare_for_rime(self) ==
    [l |-> FMul(TAU, self.l),
     m |-> FMul(TAU, self.m),
     n |-> FMul(TAU, FSub(self.n, F(1)))]

\* mutant: n is not shifted back
to_lmn_no_shift(self) ==
    [l |-> FDiv(self.l, TAU),
     m |-> FDiv(self.m, TAU),
     n |-> FDiv(self.n, TAU)]

\* LmnRime::to_lmn
to_lmn(self) ==
    [l |-> FDiv(self.l, TAU),
     m |-> FDiv(self.m, TAU),
     n |-> FAdd(FDiv(self.n, TAU), F(1))]

\* the direction cosines sampled: the floats k / 2^(MantBits + j) of full
\* precision down to 2^-(MaxLmnExp + 1), both signs, with 0, 1 and -1
MaxLmnExp == 6

DirectionCosines ==
    {F(0), F(1), F(-1)}
    \cup {Rat(s * k, Pow2Int(MantBits + j)) :
            s \in {-1, 1},
            k \in Pow2Int(MantBits - 1)..(Pow2Int(MantBits) - 1),
            j \in 0..(MaxLmnExp - 1)}

InitLmn ==
    /\ CodecIdle
    /\ WriterIdle
    /\ SelIdle
    /\ ReadIdle
    /\ lmn \in [l : DirectionCosines, m : {F(0), Rat(-3, 8)}, n : DirectionCosines]
    /\ lmn_rime = NoneYet
    /\ lmn2 = NoneYet
    /\ jcall = NoCall
    /\ jres = NoneYet
    /\ pcall = NoCall
    /\ pres = NoneYet
    /\ precession_info = NoneYet
    /\ xyzs = <<>>
    /\ out = <<>>
    /\ xyz_tasks = <<>>

PrepareForRime ==
    /\ lmn_rime = NoneYet
    /\ lmn_rime' = prepare_for_rime(lmn)
    /\ UNCHANGED <<lmn, lmn2, jcall, jres, pcall, pres, precession_info, xyzs, out,
                   xyz_tasks, cvars, wvars, svars, rvars>>

ToLmn ==
    /\ lmn_rime # NoneYet
    /\ lmn2 = NoneYet
    /\ lmn2' = to_lmn(lmn_rime)
    /\ UNCHANGED <<lmn, lmn_rime, jcall, jres, pcall, pres, precession_info, xyzs, out,
                   xyz_tasks, cvars, wvars, svars, rvars>>

NextLmn == PrepareForRime \/ ToLmn

SpecLmn == InitLmn /\ [][NextLmn]_vars

(***************************************************************************)
(* Jones<f64> (src/jones.rs): four Complex values, entries 0..3.  The      *)
(* Complex operations are those of num_complex.                            *)
(***************************************************************************)
Complex(re, im) == [re |-> re, im |-> im]

\* Complex::neg, sub, mul
CNeg(a) == Complex(FNeg(a.re), FNeg(a.im))
CSub(a, b) == Complex(FSub(a.re, b.re), FSub(a.im, b.im))
CMul(a, b) ==
    Complex(FSub(FMul(a.re, b.re), FMul(a.im, b.im)),
            FAdd(FMul(a.re, b.im), FMul(a.im, b.re)))

\* mutant: a division by zero gives zero
CDiv_zero_guarded(a, b) ==
    LET norm_sqr == FAdd(FMul(b.re, b.re), FMul(b.im, b.im))
    IN  IF norm_sqr = F(0)
        THEN Complex(F(0), F(0))
        ELSE Complex(FDiv(FAdd(FMul(a.re, b.re), FMul(a.im, b.im)), norm_sqr),
                     FDiv(FSub(FMul(a.im, b.re), FMul(a.re, b.im)), norm_sqr))

\* Complex::div
CDiv(a, b) ==
    LET norm_sqr == FAdd(FMul(b.re, b.re), FMul(b.im, b.im))
    IN  Complex(FDiv(FAdd(FMul(a.re, b.re), FMul(a.im, b.im)), norm_sqr),
                FDiv(FSub(FMul(a.im, b.re), FMul(a.re, b.im)), norm_sqr))

\* Complex::is_nan
c_is_nan(a) == is_nan(a.re) \/ is_nan(a.im)

\* Jones::from([..; 4])
JonesOf(j0, j1, j2, j3) == Table([k \in 0..3 |-> <<j0, j1, j2, j3>>[k + 1]])

\* self[0] * self[3] - self[1] * self[2]
Det(self) == CSub(CMul(self[0], self[3]), CMul(self[1], self[2]))

\* Jones::inv
inv(self) ==
    LET inv_det == CDiv(Complex(F(1), F(0)), Det(self))
    IN  JonesOf(CMul(inv_det, self[3]),
                CMul(CNeg(inv_det), self[1]),
                CMul(CNeg(inv_det), self[2]),
                CMul(inv_det, self[0]))

\* Div<Jones<F>> for Jones<F>
jones_div(self, rhs) ==
    LET inv_det == CDiv(Complex(F(1), F(0)), Det(rhs))
    IN  JonesOf(CMul(CSub(CMul(self[0], rhs[3]), CMul(self[1], rhs[2])), inv_det),
                CMul(CSub(CMul(self[1], rhs[0]), CMul(self[0], rhs[1])), inv_det),
                CMul(CSub(CMul(self[2], rhs[3]), CMul(self[3], rhs[2])), inv_det),
                CMul(CSub(CMul(self[3], rhs[0]), CMul(self[2], rhs[1])), inv_det))

\* Jones::any_nan
any_nan(self) == \E k \in 0..3 : c_is_nan(self[k])

\* the operands sampled: every matrix of entries with parts 0..MaxPart, the
\* real matrices of the tests, and matrices with an infinite or NaN entry
MaxPart == 1

SmallComplex == {Complex(F(re), F(im)) : re \in 0..MaxPart, im \in 0..MaxPart}

RealJones(a, b, c, d) ==
    JonesOf(Complex(F(a), F(0)), Complex(F(b), F(0)),
            Complex(F(c), F(0)), Complex(F(d), F(0)))

JonesSamples ==
    {JonesOf(j[1], j[2], j[3], j[4]) : j \in SmallComplex \X SmallComplex
                                            \X SmallComplex \X SmallComplex}
    \cup {RealJones(1, 2, 2, 4), RealJones(1, -2, -2, 4), RealJones(-3, 5, 7, 1),
          JonesOf(Complex(PosInf, F(0)), Complex(F(0), F(0)),
                  Complex(F(0), F(0)), Complex(F(0), F(0))),
          JonesOf(Complex(F(0), F(0)), Complex(NegInf, F(1)),
                  Complex(F(0), F(0)), Complex(F(1), F(1))),
          JonesOf(Complex(NaN, F(0)), Complex(F(0), F(0)),
                  Complex(F(0), F(0)), Complex(F(0), F(0)))}

\* the left operands of the divisions
JonesLeft ==
    {RealJones(1, 2, 2, 4),
     JonesOf(Complex(PosInf, F(0)), Complex(F(0), F(1)),
             Complex(F(2), F(0)), Complex(F(0), F(0)))}

Inv(j) ==
    /\ jcall = NoCall
    /\ jcall' = [op |-> "inv", lhs |-> j, rhs |-> j]
    /\ jres' = [kind |-> "value", jones |-> inv(j)]
    /\ UNCHANGED <<lmn, lmn_rime, lmn2, pcall, pres, precession_info, xyzs, out,
                   xyz_tasks, cvars, wvars, svars, rvars>>

JonesDiv(a, b) ==
    /\ jcall = NoCall
    /\ jcall' = [op |-> "div", lhs |-> a, rhs |-> b]
    /\ jres' = [kind |-> "value", jones |-> jones_div(a, b)]
    /\ UNCHANGED <<lmn, lmn_rime, lmn2, pcall, pres, precession_info, xyzs, out,
                   xyz_tasks, cvars, wvars, svars, rvars>>

NextJones ==
    \/ \E j \in JonesSamples : Inv(j)
    \/ \E a \in JonesLeft, b \in JonesSamples : JonesDiv(a, b)

SpecJones == Init /\ [][NextJones]_vars

(***************************************************************************)
(* Precession (src/pos/precession.rs).  The routines of PAL are outside    *)
(* the crate: palGmst, palPrenut, palDcc2s and the aberration are the      *)
(* environment, which supplies any value of their range; palDranrm and the *)
(* f64 remainder are computed.                                             *)
(***************************************************************************)
\* the integer part of n / d, towards zero
Trunc(n, d) == Sign(n) * Sign(d) * (Abs(n) \div Abs(d))

\* f64 Rem (x % y, C's fmod): x - y * trunc(x / y), exact, with the sign of x
FRem(x, y) ==
    IF is_nan(x) \/ is_nan(y) \/ is_infinite(x) \/ y.n = 0 THEN NaN
    ELSE IF is_infinite(y) THEN x
    ELSE LET q == Trunc(x.n * y.d, x.d * y.n)
         IN  Rat(x.n * y.d - q * y.n * x.d, x.d * y.d)

\* palDranrm (eraAnp): w = fmod(a, 2 pi); if w < 0 then w += 2 pi
palDranrm(angle) ==
    LET w == FRem(angle, TAU)
    IN  IF is_finite(w) /\ w.n < 0 THEN FAdd(w, TAU) ELSE w

\* get_lmst, given gmst = palGmst(time.as_mjd_utc_days())
get_lmst(gmst, array_longitude_rad) == FRem(FAdd(gmst, array_longitude_rad), TAU)

Matrix3(f(_, _)) == Table([i \in 0..2 |-> Table([j \in 0..2 |-> f(i, j)])])

\* [[0.0; 3]; 3]
ZeroMatrix == LET z(i, j) == F(0) IN Matrix3(z)

\* the two loops of the transposition, pass k = 3 * i + j onwards: old is row
\* i of the old matrix, new is row j of the new one, and new[i] = old[j]
RECURSIVE TransposeLoop(_, _, _)
TransposeLoop(old, new, k) ==
    IF k = 9
    THEN new
    ELSE LET i == k \div 3
             j == k % 3
         IN  TransposeLoop(old, [new EXCEPT ![j][i] = old[i][j]], k + 1)

\* mutant: the matrix is copied as it is
transpose_copied(rotation_matrix) == rotation_matrix

\* the block of precess_time that transposes the rotation matrix
transpose(rotation_matrix) == TransposeLoop(rotation_matrix, ZeroMatrix, 0)

\* hadec_j2000 and rotate_radec, given ra2 and dec2 of palDcc2s
hadec_j2000(cc2s, radec) ==
    LET new_lmst == palDranrm(cc2s.ra)
    IN  [hadec |-> [ha |-> palDranrm(FSub(new_lmst, radec.ra)), dec |-> radec.dec],
         latitude |-> cc2s.dec,
         lmst |-> new_lmst]

\* precess_time, given the results of the PAL routines: gmst of palGmst,
\* produced of palPrenut, radec_aber of aber_radec_rad, cc2s of palDcc2s
\* (from the transposed matrix, which palDmxv reads and leaves as it is)
precess_time(gmst, array_longitude_rad, produced, radec_aber, cc2s) ==
    LET lmst == get_lmst(gmst, array_longitude_rad)
        rotation_matrix == transpose(produced)
        precessed == hadec_j2000(cc2s, radec_aber)
    IN  [rotation_matrix |-> rotation_matrix,
         hadec_j2000 |-> precessed.hadec,
         lmst |-> lmst,
         lmst_j2000 |-> precessed.lmst,
         array_latitude_j2000 |-> precessed.latitude]

\* the angles sampled: the floats nearest to k / AngleSteps
AngleSteps == 2

Angles(lo, hi) == {RoundF(k, AngleSteps) : k \in (lo * AngleSteps)..(hi * AngleSteps)}

\* [0, 2 pi): the range of palGmst and of palDranrm
TurnAngles == {a \in Angles(0, 7) : FLt(a, TAU)}

\* longitudes, east and west, and the range of palDcc2s
SignedAngles == Angles(-3, 3)

\* matrices of palPrenut, with entries that tell the places apart
PrenutMatrices ==
    {LET a(i, j) == F(3 * i + j + 1) IN Matrix3(a),
     LET b(i, j) == Rat(i - 2 * j, 4) IN Matrix3(b)}

GetLmst(gmst, array_longitude_rad) ==
    /\ pcall = NoCall
    /\ pcall' = [op |-> "get_lmst", gmst |-> gmst,
                 array_longitude_rad |-> array_longitude_rad]
    /\ pres' = [kind |-> "f64", lmst |-> get_lmst(gmst, array_longitude_rad)]
    /\ UNCHANGED <<lmn, lmn_rime, lmn2, jcall, jres, precession_info, xyzs, out,
                   xyz_tasks, cvars, wvars, svars, rvars>>

PrecessTime(gmst, array_longitude_rad, produced, aber_ra, cc2s_ra) ==
    /\ pcall = NoCall
    /\ pcall' = [op |-> "precess_time", gmst |-> gmst,
                 array_longitude_rad |-> array_longitude_rad,
                 produced |-> produced, aber_ra |-> aber_ra, cc2s_ra |-> cc2s_ra]
    /\ pres' = [kind |-> "PrecessionInfo",
                info |-> precess_time(gmst, array_longitude_rad, produced,
                                      [ra |-> aber_ra, dec |-> F(0)],
                                      [ra |-> cc2s_ra, dec |-> F(-1)])]
    /\ UNCHANGED <<lmn, lmn_rime, lmn2, jcall, jres, precession_info, xyzs, out,
                   xyz_tasks, cvars, wvars, svars, rvars>>

NextPrecess ==
    \/ \E gmst \in TurnAngles, long \in SignedAngles : GetLmst(gmst, long)
    \/ \E gmst \in {F(0), F(1), F(6)}, long \in {F(-3), F(2)},
          produced \in PrenutMatrices, aber_ra \in TurnAngles,
          cc2s_ra \in SignedAngles :
          PrecessTime(gmst, long, produced, aber_ra, cc2s_ra)

SpecPrecess == Init /\ [][NextPrecess]_vars

(***************************************************************************)
(* PrecessionInfo::precess_xyz_parallel.  The map over par_iter is one     *)
(* task per element; the tasks run in any order, each reads the shared     *)
(* PrecessionInfo and its own element and writes its own slot of the       *)
(* output, and collect_into_vec hands the slots back in the order of the   *)
(* input.  SpecXyz: one call, over every order of the tasks.               *)
(***************************************************************************)
\* the angles whose sine and cosine are tabulated
XyzAngles == {F(0), F(1), F(2)}

\* f64::sin_cos at the tabulated angles: the floats nearest to the sine and
\* the cosine, from their values to six decimal places
sin_cos(x) ==
    IF x = F(0) THEN <<F(0), F(1)>>
    ELSE IF x = F(1) THEN <<RoundF(841471, 1000000), RoundF(540302, 1000000)>>
    ELSE <<RoundF(909297, 1000000), RoundF(-416147, 1000000)>>

\* a * p + b * q + c * r, left to right
Dot3(a, p, b, q, c, r) == FAdd(FAdd(FMul(a, p), FMul(b, q)), FMul(c, r))

\* the closure of the map: one element, from the sines and cosines taken
\* before the map and the rotation matrix
precess_xyz(sep, cep, s2000, c2000, rmat, xyz) ==
    LET xpr == FSub(FMul(cep, xyz.x), FMul(sep, xyz.y))
        ypr == FAdd(FMul(sep, xyz.x), FMul(cep, xyz.y))
        zpr == xyz.z
        xpr2 == Dot3(rmat[0][0], xpr, rmat[0][1], ypr, rmat[0][2], zpr)
        ypr2 == Dot3(rmat[1][0], xpr, rmat[1][1], ypr, rmat[1][2], zpr)
        zpr2 == Dot3(rmat[2][0], xpr, rmat[2][1], ypr, rmat[2][2], zpr)
    IN  [x |-> FAdd(FMul(c2000, xpr2), FMul(s2000, ypr2)),
         y |-> FAdd(FMul(FNeg(s2000), xpr2), FMul(c2000, ypr2)),
         z |-> zpr2]

\* mutant: the results are handed back in the order the tasks finished
collect_in_finishing_order(slots) ==
    [r \in 1..Len(slots) |-> slots[CHOOSE i \in 1..Len(slots) : slots[i].at = r].val]

\* collect_into_vec: the result of the task of element i is element i
collect_into_vec(slots) == [i \in 1..Len(slots) |-> slots[i].val]

\* the call: the sines and cosines are taken, the output is allocated empty
\* and the tasks are handed out
PrecessXyzParallel(self, input) ==
    /\ pcall = NoCall
    /\ pcall' = [op |-> "precess_xyz_parallel", self |-> self, xyzs |-> input]
    /\ precession_info' = self
    /\ xyzs' = input
    /\ out' = <<>>
    /\ xyz_tasks' = [i \in 1..Len(input) |-> [pc |-> "pending", at |-> 0, val |-> NoneYet]]
    /\ pres' = [kind |-> "running",
                sep |-> sin_cos(self.lmst)[1], cep |-> sin_cos(self.lmst)[2],
                s2000 |-> sin_cos(self.lmst_j2000)[1],
                c2000 |-> sin_cos(self.lmst_j2000)[2]]
    /\ UNCHANGED <<lmn, lmn_rime, lmn2, jcall, jres, cvars, wvars, svars, rvars>>

\* the task of element i runs the closure and fills its slot
XyzTask(i) ==
    /\ pcall.op = "precess_xyz_parallel"
    /\ pres.kind = "running"
    /\ i \in DOMAIN xyz_tasks
    /\ xyz_tasks[i].pc = "pending"
    /\ xyz_tasks' =
          [xyz_tasks EXCEPT ![i] =
              [pc |-> "done",
               at |-> 1 + Cardinality({k \in DOMAIN xyz_tasks : xyz_tasks[k].pc = "done"}),
               val |-> precess_xyz(pres.sep, pres.cep, pres.s2000, pres.c2000,
                                   precession_info.rotation_matrix, xyzs[i])]]
    /\ UNCHANGED <<lmn, lmn_rime, lmn2, jcall, jres, pcall, pres, precession_info,
                   xyzs, out, cvars, wvars, svars, rvars>>

\* every task is done: the vector is returned
XyzReturn ==
    /\ pcall.op = "precess_xyz_parallel"
    /\ pres.kind = "running"
    /\ \A i \in DOMAIN xyz_tasks : xyz_tasks[i].pc = "done"
    /\ out' = collect_into_vec(xyz_tasks)
    /\ pres' = [kind |-> "Vec"]
    /\ UNCHANGED <<lmn, lmn_rime, lmn2, jcall, jres, pcall, precession_info, xyzs,
                   xyz_tasks, cvars, wvars, svars, rvars>>

\* the longest input slice
MaxXyzs == 3

\* antenna positions that differ in every coordinate
XyzSamples == {[x |-> F(1), y |-> F(2), z |-> F(3)],
               [x |-> F(-1), y |-> F(0), z |-> Rat(1, 2)]}

XyzLists == UNION {[1..n -> XyzSamples] : n \in 0..MaxXyzs}

\* results of precess_time with lmst and lmst_j2000 among the tabulated angles
XyzInfos ==
    {precess_time(gmst, F(0), produced, [ra |-> F(0), dec |-> F(0)],
                  [ra |-> ra2, dec |-> F(-1)]) :
        gmst \in {F(0), F(1)}, produced \in PrenutMatrices, ra2 \in {F(0), F(2)}}

NextXyz ==
    \/ \E self \in XyzInfos, input \in XyzLists : PrecessXyzParallel(self, input)
    \/ \E i \in 1..MaxXyzs : XyzTask(i)
    \/ XyzReturn

SpecXyz == Init /\ [][NextXyz]_vars

(***************************************************************************)
(* SpecDate: a writer made at any time of the day of the tests, then rows  *)
(* of later epochs.                                                        *)
(***************************************************************************)
\* the times of day sampled: multiples of 1 / DaySteps of a day
DaySteps == 4

\* 2013-10-15T00:00:00 UTC
MidnightOfTests == Rat(4913161, 2)

\* the start epochs: the times of day of that day
StartEpochs == {RAdd(MidnightOfTests, Rat(k, DaySteps)) : k \in 0..(DaySteps - 1)}

\* the epochs of the rows of a writer: from its start up to a day later
RowEpochs(start) == {RAdd(start, Rat(k, DaySteps)) : k \in 0..DaySteps}

NextDate ==
    \/ \E start \in StartEpochs : New(MaxTimesteps, MaxBaselines, start, "ok")
    \/ \E epoch \in RowEpochs(start_epoch), fits_fails \in BOOLEAN :
          WriteVisRow(0, 1, epoch, <<F(1), F(2), F(3)>>, fits_fails)

SpecDate == Init /\ [][NextDate]_vars

(***************************************************************************)
(* SpecAbort: one writer, then write_vis_marlu calls in which the group    *)
(* write of any one row, or of none, fails.                                *)
(***************************************************************************)
\* the rows one write_vis_marlu call has to write
num_avg_rows(ctx) == num_avg_timesteps(ctx) * Len(ctx.sel_baselines)

NextAbort ==
    \/ \E nt \in 1..MaxTimesteps, nb \in 1..MaxBaselines :
          New(nt, nb, StartOfTests, "ok")
    \/ \E ctx \in RowContexts : \E fail_at \in 0..num_avg_rows(ctx) :
          WriteVisMarlu(ctx, sel_dims(ctx), sel_dims(ctx), "equal", FALSE, fail_at)

SpecAbort == Init /\ [][NextAbort]_vars


(***************************************************************************)
(* Claims about the codec (checked under SpecCodec).                       *)
(***************************************************************************)
\* C1: for every pair of one-indexed antenna numbers (a1, a2) in 1..2048,
\* decode_uvfits_baseline(encode_uvfits_baseline(a1, a2)) returns exactly
\* (a1, a2).
C1_RoundTrip ==
    cpc = "decoded" =>
        /\ dec.kind = "ok"
        /\ dec.ant1 = ant[1]
        /\ dec.ant2 = ant[2]

\* C7: encode_uvfits_baseline(ant1, ant2) is ant1*256 + ant2 when both antenna
\* numbers are <= 255, and ant1*2048 + ant2 + 65536 when antenna 2 is > 255.
C7_EncodeFormula ==
    cpc # "start" =>
        /\ (ant[1] <= 255 /\ ant[2] <= 255) => bl = ant[1] * 256 + ant[2]
        /\ ant[2] > 255 => bl = ant[1] * 2048 + ant[2] + 65536

\* C7 witness: a pair on the Miriad branch has been encoded
C7_Witness ==
    /\ cpc = "encoded"
    /\ ant = <<MaxAnt, 256>>
    /\ bl = MaxAnt * 2048 + 256 + 65536

(***************************************************************************)
(* Claims about the writer's row counters (checked under Spec).            *)
(***************************************************************************)
\* C2: write_uvfits_antenna_table on a writer whose current_num_rows differs
\* from total_num_rows returns NotEnoughRowsWritten{current, total}, current
\* being the number of rows written successfully so far; the antenna table is
\* written only when the two counts are equal.
C2_NotEnoughRows ==
    call.op = "write_uvfits_antenna_table" =>
        /\ call.cur0 # total_num_rows =>
              /\ res = [kind |-> "NotEnoughRowsWritten", a |-> succ,
                        b |-> total_num_rows, arg |-> ""]
              /\ succ = call.cur0
              /\ antenna_hdu = NoAntennaHdu
        /\ antenna_hdu.created => call.cur0 = total_num_rows

\* C2 witness: the table was asked for after one row of two
C2_Witness ==
    /\ call.op = "write_uvfits_antenna_table"
    /\ res.kind = "NotEnoughRowsWritten"
    /\ res.a = 1
    /\ res.b = 2

\* C3: write_vis_row on a writer that has written total_num_rows rows fails
\* with BadRowNum{row_num = current_num_rows, num_rows = total_num_rows} and
\* writes nothing; with fewer rows written it never returns BadRowNum.
C3_BadRowNum ==
    call.op = "write_vis_row" =>
        /\ call.cur0 = total_num_rows =>
              /\ res = [kind |-> "BadRowNum", a |-> call.cur0,
                        b |-> total_num_rows, arg |-> ""]
              /\ ffpgpe = <<>>
              /\ current_num_rows = call.cur0
        /\ call.cur0 < total_num_rows => res.kind # "BadRowNum"

\* C3 witness: a row was refused on a full writer of two rows
C3_Witness ==
    /\ call.op = "write_vis_row"
    /\ res.kind = "BadRowNum"
    /\ call.cur0 = 2
    /\ total_num_rows = 2
    /\ succ = 2

\* C4: once exactly total_num_rows row writes have succeeded, through
\* write_vis_row and write_vis_marlu in any mix, current_num_rows equals
\* total_num_rows, and write_uvfits_antenna_table then passes its row check:
\* it does not return NotEnoughRowsWritten and, unless opening the file or
\* creating the table fails, the antenna HDU is created.
C4_CompleteThenTable ==
    /\ (wpc = "ready" /\ succ = total_num_rows) =>
            current_num_rows = total_num_rows
    /\ (call.op = "write_uvfits_antenna_table" /\ succ = total_num_rows) =>
            /\ res.kind # "NotEnoughRowsWritten"
            /\ call.io \notin {"fail_open", "fail_create"} => antenna_hdu.created

\* C4 witness: four rows written, then the antenna table with two antennas
C4_Witness ==
    /\ call.op = "write_uvfits_antenna_table"
    /\ succ = 4
    /\ total_num_rows = 4
    /\ res.kind = "Ok"
    /\ antenna_hdu.created
    /\ Len(antenna_hdu.rows) = 2

\* C5: in every state of a writer 0 <= current_num_rows <= total_num_rows,
\* and no operation changes total_num_rows.
C5_CounterRange ==
    /\ [](wpc # "none" =>
            /\ 0 <= current_num_rows
            /\ current_num_rows <= total_num_rows)
    /\ [][wpc # "none" => total_num_rows' = total_num_rows]_vars

\* C5 witness: a full writer after a failed call
C5_Witness ==
    /\ wpc = "ready"
    /\ current_num_rows = total_num_rows
    /\ total_num_rows = 4
    /\ res.kind \in {"BadRowNum", "Fits", "BadArrayShape"}

\* C6 as claimed: new returns a writer with total_num_rows = num_timesteps *
\* num_baselines and current_num_rows = 0; when the product is 0 it stops on
\* the assertion and returns neither a writer nor an error value.
C6_Original ==
    call.op = "new" =>
        /\ res.kind = "Ok" =>
              /\ wpc = "ready"
              /\ total_num_rows = call.num_timesteps * call.num_baselines
              /\ current_num_rows = 0
        /\ call.num_timesteps * call.num_baselines = 0 => res.kind = "Panic"

\* C6 amended: a writer returned by new has total_num_rows = num_timesteps *
\* num_baselines > 0 and current_num_rows = 0; when the product is 0 no writer
\* is returned: new stops on the assertion, unless a call before the
\* assertion (removing an old file, converting the path, ffinit) failed, and
\* then it returns that error.
C6_Amended ==
    call.op = "new" =>
        /\ res.kind = "Ok" =>
              /\ wpc = "ready"
              /\ total_num_rows = call.num_timesteps * call.num_baselines
              /\ total_num_rows > 0
              /\ current_num_rows = 0
        /\ call.num_timesteps * call.num_baselines = 0 =>
              /\ wpc # "ready"
              /\ IF call.io = "fail_create"
                 THEN res.kind = "Fits"
                 ELSE res.kind = "Panic"

\* C6 witness: new with no baselines stopped on the assertion
C6_Witness ==
    /\ call.op = "new"
    /\ call.num_timesteps = 1
    /\ call.num_baselines = 0
    /\ res.kind = "Panic"
    /\ wpc = "panicked"

\* C8: write_vis_marlu returns BadArrayShape naming "vis" when vis.dim()
\* differs from vis_ctx.sel_dims(), otherwise BadArrayShape naming "weights"
\* when weights.dim() differs; the check comes before the file is opened (a
\* failing open does not show), no row is written and current_num_rows is
\* unchanged.
C8_BadArrayShape ==
    call.op = "write_vis_marlu" =>
        LET dims == <<call.ctx.num_sel_timesteps, call.ctx.num_sel_chans,
                      Len(call.ctx.sel_baselines)>>
            wrong == IF call.vis_dim # dims THEN "vis"
                     ELSE IF call.weights_dim # dims THEN "weights"
                     ELSE ""
        IN  /\ wrong # "" =>
                  /\ res = [kind |-> "BadArrayShape", a |-> 0, b |-> 0,
                            arg |-> wrong]
                  /\ ffpgpe = <<>>
                  /\ current_num_rows = call.cur0
                  /\ succ = call.cur0
            /\ wrong = "" => res.kind # "BadArrayShape"

\* C8 witness: wrong weights on a writer with a row written, the file unopenable
C8_Witness ==
    /\ call.op = "write_vis_marlu"
    /\ call.vis_dim = sel_dims(call.ctx)
    /\ call.weights_dim # sel_dims(call.ctx)
    /\ call.open_fails
    /\ res.kind = "BadArrayShape"
    /\ res.arg = "weights"
    /\ current_num_rows = 1

(***************************************************************************)
(* Claims about the rows write_vis_marlu builds (checked under SpecAvg).   *)
(***************************************************************************)
\* C9: with avg_time = 1, avg_freq = 1 and all weights positive, a row
\* written by write_vis_marlu carries for each channel c the input Jones matrix
\* at [timestep][c][baseline] unchanged, in the polarisation order 0, 3, 1, 2,
\* each as (re, im) followed by the input weight.
C9_TrivialCopy ==
    (/\ call.op = "write_vis_marlu"
     /\ call.ctx.avg_time = 1
     /\ call.ctx.avg_freq = 1
     /\ call.pat \in {"equal", "ramp"}) =>
        \A k \in 1..Len(ffpgpe) :
            LET nb == Len(call.ctx.sel_baselines)
                t == (k - 1) \div nb
                b == (k - 1) % nb
                row == ffpgpe[k].row.vis
                order == <<0, 3, 1, 2>>
            IN  /\ Len(row) = 12 * call.ctx.num_sel_chans
                /\ \A c \in 0..(call.ctx.num_sel_chans - 1), q \in 1..4 :
                      LET at == 12 * c + 3 * (q - 1)
                          j == VisAt(t, c, b)[order[q]]
                      IN  /\ row[at + 1] = [n |-> j.re, d |-> 1]
                          /\ row[at + 2] = [n |-> j.im, d |-> 1]
                          /\ row[at + 3] = [n |-> WeightAt(call.pat, t, c, b),
                                            d |-> 1]

\* C9 witness: two timesteps, two channels, two baselines, unequal weights
C9_Witness ==
    /\ call.op = "write_vis_marlu"
    /\ call.ctx.avg_time = 1
    /\ call.ctx.avg_freq = 1
    /\ call.ctx.num_sel_chans = 2
    /\ call.pat = "ramp"
    /\ res.kind = "Ok"
    /\ Len(ffpgpe) = 4
    /\ current_num_rows = 4

\* C10: when averaging is not trivial each row holds one value per block of
\* avg_time x avg_freq samples.  For a block of one timestep and up to two
\* channels: with equal positive weights the value is the arithmetic mean of
\* the two Jones values in every polarisation; a sample with a negative
\* weight adds nothing to the numerator; the output weight keeps the flagging
\* convention: it is positive exactly when some sample of the block is not
\* flagged.
C10_BlockAverage ==
    (/\ call.op = "write_vis_marlu"
     /\ call.ctx.avg_time = 1
     /\ call.ctx.avg_freq = 2) =>
        \A k \in 1..Len(ffpgpe) :
            LET nb == Len(call.ctx.sel_baselines)
                nc == call.ctx.num_sel_chans
                t == (k - 1) \div nb
                b == (k - 1) % nb
                row == ffpgpe[k].row.vis
                order == <<0, 3, 1, 2>>
            IN  /\ Len(row) = 12 * ((nc + 1) \div 2)
                /\ \A ci \in 0..(((nc + 1) \div 2) - 1), q \in 1..4 :
                      LET at == 12 * ci + 3 * (q - 1)
                          c1 == 2 * ci
                          c2 == 2 * ci + 1
                          w1 == WeightAt(call.pat, t, c1, b)
                          w2 == IF c2 < nc THEN WeightAt(call.pat, t, c2, b) ELSE 0
                          u1 == IF w1 > 0 THEN w1 ELSE 0
                          u2 == IF w2 > 0 THEN w2 ELSE 0
                          j1 == VisAt(t, c1, b)[order[q]]
                          j2 == VisAt(t, c2, b)[order[q]]
                          re == row[at + 1]
                          im == row[at + 2]
                          wt == row[at + 3]
                      IN  /\ wt.d = 1
                          /\ wt.n > 0 <=> u1 + u2 > 0
                          /\ u1 + u2 > 0 =>
                                /\ re.d > 0
                                /\ im.d > 0
                                /\ re.n * (u1 + u2) = re.d * (u1 * j1.re + u2 * j2.re)
                                /\ im.n * (u1 + u2) = im.d * (u1 * j1.im + u2 * j2.im)
                          /\ (w1 = w2 /\ w1 > 0) =>
                                /\ 2 * re.n = re.d * (j1.re + j2.re)
                                /\ 2 * im.n = im.d * (j1.im + j2.im)

\* C10 witness: two channels averaged into one, one of the two flagged
C10_Witness ==
    /\ call.op = "write_vis_marlu"
    /\ call.ctx.avg_time = 1
    /\ call.ctx.avg_freq = 2
    /\ call.ctx.num_sel_chans = 2
    /\ call.pat = "flagged"
    /\ res.kind = "Ok"
    /\ Len(ffpgpe) = 2
    /\ ffpgpe[1].row.vis[3].n > 0
    /\ ffpgpe[1].row.vis[1] = [n |-> 100, d |-> 1]

(***************************************************************************)
(* Claims about the rows of one write_vis_marlu call (checked under Spec). *)
(***************************************************************************)
\* C11: a successful write_vis_marlu call writes exactly num_avg_timesteps *
\* len(sel_baselines) rows, averaged timesteps outermost and the baselines in
\* selection order within a timestep; its k-th row goes to group
\* current_num_rows_before + k, and current_num_rows grows by the row count.
\* (The rows of Spec have one channel and equal weights: the first float of
\* row (ti, b) is the mean over the block's timesteps of 1000 t + 10 b.)
C11_RowOrder ==
    (call.op = "write_vis_marlu" /\ res.kind = "Ok") =>
        LET ctx == call.ctx
            nb == Len(ctx.sel_baselines)
            nt == (ctx.num_sel_timesteps + ctx.avg_time - 1) \div ctx.avg_time
        IN  /\ Len(ffpgpe) = nt * nb
            /\ current_num_rows = call.cur0 + nt * nb
            /\ \A k \in 1..Len(ffpgpe) :
                  LET ti == (k - 1) \div nb
                      b == (k - 1) % nb
                      tlo == ti * ctx.avg_time
                      rest == ctx.num_sel_timesteps - tlo
                      tn == IF ctx.avg_time <= rest THEN ctx.avg_time ELSE rest
                      pair == ctx.sel_baselines[b + 1]
                  IN  /\ ffpgpe[k].ok
                      /\ ffpgpe[k].group = call.cur0 + k
                      /\ groups[call.cur0 + k] = 1
                      /\ ffpgpe[k].row.baseline = (pair[1] + 1) * 256 + pair[2] + 1
                      /\ ffpgpe[k].row.vis[1] =
                            [n |-> 1000 * tlo + 500 * (tn - 1) + 10 * b, d |-> 1]

\* C11 witness: two timesteps of two baselines written to an empty writer
C11_Witness ==
    /\ call.op = "write_vis_marlu"
    /\ res.kind = "Ok"
    /\ call.ctx.avg_time = 1
    /\ call.ctx.num_sel_timesteps = 2
    /\ Len(call.ctx.sel_baselines) = 2
    /\ Len(ffpgpe) = 4
    /\ ffpgpe[3].row.vis[1] = [n |-> 1000, d |-> 1]

C13_GetShape ==
    /\ [](scall.op = "get_shape" =>
            LET nt == range_len(vis_sel.timestep_range)
                nc == BigMul(range_len(vis_sel.coarse_chan_range), scall.f)
                nb == Big(Len(vis_sel.baseline_idxs))
            IN  /\ BigLess(nc, Pow2(UsizeBits)) =>
                      sres = [kind |-> "ok", shape |-> <<nt, nc, nb>>]
                /\ sres.kind = "ok" =>
                      /\ sres.shape = <<nt, ModPow2(nc, UsizeBits), nb>>
                      /\ \A r \in SelTimestepRanges :
                            LET o == get_shape([vis_sel EXCEPT !.timestep_range = r],
                                               scall.f, scall.build)
                            IN  /\ o.kind = "ok"
                                /\ o.shape[1] = range_len(r)
                                /\ o.shape[2] = sres.shape[2]
                                /\ o.shape[3] = sres.shape[3]
                      /\ \A idxs \in SelBaselineIdxs :
                            LET o == get_shape([vis_sel EXCEPT !.baseline_idxs = idxs],
                                               scall.f, scall.build)
                            IN  /\ o.kind = "ok"
                                /\ o.shape[1] = sres.shape[1]
                                /\ o.shape[2] = sres.shape[2]
                                /\ o.shape[3] = Big(Len(idxs)))
    /\ [][scall'.op = "get_shape" => vis_sel' = vis_sel]_vars

\* C13 witness: two timesteps, two coarse channels of two fine channels, two
\* baselines
C13_Witness ==
    /\ scall.op = "get_shape"
    /\ vis_sel.timestep_range = Range(Big(1), Big(3))
    /\ Len(vis_sel.baseline_idxs) = 2
    /\ sres.kind = "ok"
    /\ sres.shape = <<Big(2), Big(4), Big(2)>>

\* C14: allocate_jones, allocate_flags and allocate_weights never panic; when
\* the reservation fails they return InsufficientMemory{need_gib} with
\* need_gib = estimate_bytes_best(f) / 2^30, the estimate being shape.0 *
\* shape.1 * shape.2 * (32 + 4 + 1) in usize arithmetic.
C14_NeverPanics ==
    scall.op \in {"allocate_jones", "allocate_flags", "allocate_weights"} =>
        LET nt == range_len(vis_sel.timestep_range)
            nc == BigMul(range_len(vis_sel.coarse_chan_range), scall.f)
            nb == Big(Len(vis_sel.baseline_idxs))
            bytes == BigMul(BigMul(BigMul(nt, nc), nb), Big(37))
        IN  /\ sres.kind \in {"Ok", "InsufficientMemory"}
            /\ sres.kind = "InsufficientMemory" =>
                  sres.need_gib = DivKibi(ModPow2(bytes, UsizeBits), 3)

(***************************************************************************)
(* Claims about VisSelection::from_mwalib (checked under SpecFrom).        *)
(***************************************************************************)
\* C19: from_mwalib returns NoProvidedTimesteps when no timestep is provided,
\* NoCommonTimesteps when timesteps are provided but none is common or no
\* coarse channel is common, and otherwise the selection with timestep_range
\* = first common .. last provided + 1, coarse_chan_range = first .. last + 1
\* of the common coarse channels and baseline_idxs = 0 .. num_baselines.
C19_FromMwalib ==
    scall.op = "from_mwalib" =>
        LET ct == corr_ctx.common_timestep_indices
            pt == corr_ctx.provided_timestep_indices
            cc == corr_ctx.common_coarse_chan_indices
        IN  IF pt = <<>>
            THEN sres.kind = "NoProvidedTimesteps"
            ELSE IF ct = <<>> \/ cc = <<>>
            THEN sres.kind = "NoCommonTimesteps"
            ELSE /\ sres.kind = "Ok"
                 /\ vis_sel.timestep_range =
                        [start |-> Big(ct[1]), end |-> Big(pt[Len(pt)] + 1)]
                 /\ vis_sel.coarse_chan_range =
                        [start |-> Big(cc[1]), end |-> Big(cc[Len(cc)] + 1)]
                 /\ Len(vis_sel.baseline_idxs) = corr_ctx.num_baselines
                 /\ \A i \in 1..Len(vis_sel.baseline_idxs) :
                        vis_sel.baseline_idxs[i] = i - 1

\* C19 witness: the common timesteps start after the first provided one and
\* end before the last
C19_Witness ==
    /\ scall.op = "from_mwalib"
    /\ sres.kind = "Ok"
    /\ corr_ctx.common_timestep_indices = <<1>>
    /\ corr_ctx.provided_timestep_indices = <<0, 1, 2>>
    /\ vis_sel.timestep_range = [start |-> Big(1), end |-> Big(3)]
    /\ Len(vis_sel.baseline_idxs) = 2

(***************************************************************************)
(* Claims about read_mwalib (SpecRead)                                     *)
(***************************************************************************)
\* the shape read_mwalib compares the arrays with
ReadShape ==
    get_shape(vis_sel, Big(corr_ctx.num_corr_fine_chans_per_coarse), "debug").shape

\* C15: read_mwalib returns BadArrayShape when an array's dimensions differ
\* from get_shape(fine_chans_per_coarse), naming jones_array when that one is
\* wrong and flag_array when only that one is wrong, and never otherwise; in
\* that case no read call was made and both arrays are as the caller passed
\* them.
C15_BadArrayShape ==
    scall.op = "read_mwalib" =>
        /\ scall.jones0.dim # ReadShape =>
              sres.kind = "BadArrayShape" /\ sres.arg = "jones_array"
        /\ scall.jones0.dim = ReadShape /\ scall.flag0.dim # ReadShape =>
              sres.kind = "BadArrayShape" /\ sres.arg = "flag_array"
        /\ scall.jones0.dim = ReadShape /\ scall.flag0.dim = ReadShape =>
              sres.kind # "BadArrayShape"
        /\ sres.kind = "BadArrayShape" =>
              /\ reads = {}
              /\ jones_array = scall.jones0
              /\ flag_array = scall.flag0

\* both arrays of the wrong shape: the error names jones_array
C15_Witness ==
    /\ scall.op = "read_mwalib"
    /\ scall.jones0.dim # ReadShape
    /\ scall.flag0.dim # ReadShape
    /\ sres.kind = "BadArrayShape"
    /\ sres.arg = "jones_array"

\* the elements of the block of timestep position t and task i
Block(t, i) ==
    {e \in Elems(ReadShape) :
        /\ e[1] = t
        /\ e[2] \in chunk_chans(i, corr_ctx.num_corr_fine_chans_per_coarse,
                                Small(ReadShape[2]))}

\* the read of timestep position t by task i has been made, with this outcome
WasRead(t, i, outcome) ==
    /\ <<sel_timestep_idx(t), sel_coarse_chan_idx(i)>> \in reads
    /\ corr_ctx.hdus[<<sel_timestep_idx(t), sel_coarse_chan_idx(i)>>] = outcome

\* read_mwalib has got past its shape checks
ReadStarted == scall.op = "read_mwalib" /\ sres.kind \in {"running", "Ok", "Mwalib"}

\* read_mwalib has returned from the parallel loop
ReadReturned == scall.op = "read_mwalib" /\ sres.kind \in {"Ok", "Mwalib"}

FailedReads == {p \in reads : corr_ctx.hdus[p] = "error"}

\* C17: when a read fails with an error other than
\* NoDataForTimeStepCoarseChannel, the task of that coarse channel stops at
\* that timestep: this and the later timesteps of the channel are not stored
\* and the later ones are not read; read_mwalib returns an error, that of a
\* read that failed (of this one when it is the only one).
C17_ErrorReturned ==
    ReadStarted =>
        /\ \A i \in DOMAIN tasks : \A t \in 0..(sel_num_timesteps - 1) :
              WasRead(t, i, "error") =>
                 /\ tasks[i] = [pc |-> "failed", t |-> t]
                 /\ \A t2 \in t..(sel_num_timesteps - 1) :
                       /\ t2 > t =>
                            <<sel_timestep_idx(t2), sel_coarse_chan_idx(i)>> \notin reads
                       /\ \A e \in Block(t2, i) :
                             /\ jones_array.data[e] = scall.jones0.data[e]
                             /\ flag_array.data[e] = scall.flag0.data[e]
        /\ ReadReturned =>
              IF FailedReads = {}
              THEN sres.kind = "Ok"
              ELSE /\ sres.kind = "Mwalib"
                   /\ <<sres.ts, sres.cc>> \in FailedReads

\* the first HDU of a coarse channel cannot be read and its second one can:
\* the error is returned, the second one was never read
C17_Witness ==
    /\ ReadReturned
    /\ sres = [kind |-> "Mwalib", ts |-> 1, cc |-> 1]
    /\ WasRead(0, 1, "error")
    /\ sel_num_timesteps = 2
    /\ corr_ctx.hdus[<<2, 1>>] = "ok"
    /\ <<2, 1>> \notin reads

\* the arrays after a sequential run over the coarse channels in which no
\* read fails: an HDU that is there is stored, a missing one flagged
SequentialJones ==
    LET f == corr_ctx.num_corr_fine_chans_per_coarse
    IN  [e \in Elems(ReadShape) |->
            LET ts == sel_timestep_idx(e[1])
                cc == sel_coarse_chan_idx((e[2] \div f) + 1)
            IN  IF corr_ctx.hdus[<<ts, cc>>] = "ok"
                THEN JonesFrom(ts, cc,
                               vis_sel.baseline_idxs[e[3] + 1] * (floats_per_chan * f)
                               + (e[2] % f) * floats_per_chan)
                ELSE scall.jones0.data[e]]

SequentialFlags ==
    LET f == corr_ctx.num_corr_fine_chans_per_coarse
    IN  [e \in Elems(ReadShape) |->
            LET ts == sel_timestep_idx(e[1])
                cc == sel_coarse_chan_idx((e[2] \div f) + 1)
            IN  IF corr_ctx.hdus[<<ts, cc>>] = "nodata"
                THEN TRUE
                ELSE scall.flag0.data[e]]

\* C18: the parallel tasks of read_mwalib, one per selected coarse channel,
\* write disjoint parts of the arrays: an element of fine channel c is written
\* by the task of coarse channel c / f and by no other, so by at most one
\* task; when no read fails the arrays read_mwalib returns are those of a
\* sequential run, whatever the interleaving of the tasks.
C18_DisjointChunks ==
    ReadStarted =>
        /\ \A e \in DOMAIN touched :
              /\ touched[e] \subseteq
                    {(e[2] \div corr_ctx.num_corr_fine_chans_per_coarse) + 1}
              /\ Cardinality(touched[e]) <= 1
        /\ (ReadReturned /\ \A p \in DOMAIN corr_ctx.hdus : corr_ctx.hdus[p] # "error") =>
              /\ \A e \in Elems(ReadShape) :
                    /\ jones_array.data[e] = SequentialJones[e]
                    /\ flag_array.data[e] = SequentialFlags[e]
              /\ jones_array.dim = scall.jones0.dim
              /\ flag_array.dim = scall.flag0.dim

\* two tasks of two timesteps each have run to the end, each wrote its own
\* fine channels
C18_Witness ==
    /\ ReadReturned
    /\ sres.kind = "Ok"
    /\ Len(tasks) = 2
    /\ sel_num_timesteps = 2
    /\ touched[<<1, 0, 0>>] = {1}
    /\ touched[<<1, 1, 0>>] = {1}
    /\ touched[<<1, 2, 0>>] = {2}
    /\ touched[<<1, 3, 0>>] = {2}
    /\ jones_array.data[<<1, 3, 0>>].cc = 2

(***************************************************************************)
(* Claims about the antenna table (Spec)                                   *)
(***************************************************************************)
\* C20: write_uvfits_antenna_table, called when all rows are written with n
\* names and n positions (and no call of the FITS library failing), writes
\* exactly n antenna rows in input order: row i (from 1) holds ANNAME =
\* antenna_names[i], STABXYZ = positions[i] and NOSTA = i, so that the ANNAME
\* column equals the input name list.
C20_AntennaRows ==
    (/\ call.op = "write_uvfits_antenna_table"
     /\ call.cur0 = total_num_rows
     /\ call.io = "ok"
     /\ Len(call.antenna_names) = Len(call.positions)) =>
        /\ res.kind = "Ok"
        /\ Len(antenna_hdu.rows) = Len(call.positions)
        /\ \A i \in 1..Len(call.positions) :
              /\ antenna_hdu.rows[i].anname = call.antenna_names[i]
              /\ antenna_hdu.rows[i].stabxyz = call.positions[i]
              /\ antenna_hdu.rows[i].nosta = i
        /\ [i \in 1..Len(antenna_hdu.rows) |-> antenna_hdu.rows[i].anname]
              = call.antenna_names

(***************************************************************************)
(* Claims about LMN (SpecLmn)                                              *)
(***************************************************************************)
\* f64::EPSILON: the gap between 1 and the next float
EPSILON == Rat(2, Pow2Int(MantBits))

\* |x - y| <= k * EPSILON * scale, for finite floats and an integer k
Within(x, y, k, scale) ==
    Abs(x.n * y.d - y.n * x.d) * EPSILON.d * scale.d
        <= k * EPSILON.n * Abs(scale.n) * x.d * y.d

\* C21 as stated: prepare_for_rime and to_lmn are an inverse pair: for every
\* LMN value lmn, lmn.prepare_for_rime().to_lmn() equals lmn.
C21_Original == lmn2 # NoneYet => lmn2 = lmn

\* C21 as amended: for direction cosines (finite, at most 1 in size)
\* lmn.prepare_for_rime().to_lmn() equals lmn to within rounding: l and m to a
\* relative error of at most 2 EPSILON, n to an absolute error of at most
\* 4 EPSILON.
C21_Amended ==
    lmn2 # NoneYet =>
        /\ is_finite(lmn2.l) /\ is_finite(lmn2.m) /\ is_finite(lmn2.n)
        /\ Within(lmn2.l, lmn.l, 2, lmn.l)
        /\ Within(lmn2.m, lmn.m, 2, lmn.m)
        /\ Within(lmn2.n, lmn.n, 4, F(1))

\* a round trip that is exact, and one in which n is too small to survive
\* the subtraction of 1
C21_Witness ==
    /\ lmn2 # NoneYet
    /\ lmn.n # F(0)
    /\ lmn.l # F(0)
    /\ lmn2.l = lmn.l
    /\ lmn2.n = F(0)

(***************************************************************************)
(* Claims about Jones (SpecJones)                                          *)
(***************************************************************************)
\* C22: for a Jones matrix whose determinant j[0]*j[3] - j[1]*j[2] is zero,
\* inv() and the division by it return a value, not an error, all four
\* entries of which are NaN (real and imaginary part), so that any_nan() is
\* true on the result.
C22_SingularIsNaN ==
    (jcall.op \in {"inv", "div"} /\ Det(jcall.rhs) = Complex(F(0), F(0))) =>
        /\ jres.kind = "value"
        /\ \A k \in 0..3 : is_nan(jres.jones[k].re) /\ is_nan(jres.jones[k].im)
        /\ any_nan(jres.jones)

\* the division of the tests: a / a for the singular a = [1, 2; 2, 4]
C22_Witness ==
    /\ jcall.op = "div"
    /\ jcall.lhs = RealJones(1, 2, 2, 4)
    /\ jcall.rhs = RealJones(1, 2, 2, 4)
    /\ Det(jcall.rhs) = Complex(F(0), F(0))
    /\ any_nan(jres.jones)

(***************************************************************************)
(* Claims about the precession (SpecPrecess)                               *)
(***************************************************************************)
\* 0 <= x < 2 pi
InTurn(x) == is_finite(x) /\ x.n >= 0 /\ FLt(x, TAU)

\* C23: for every epoch and every array longitude, positive or negative, the
\* angles of the precession are range-normalised like palDranrm: get_lmst and
\* PrecessionInfo.lmst lie in [0, 2 pi), and so do PrecessionInfo.lmst_j2000
\* and hadec_j2000.ha.
C23_AnglesNormalised ==
    /\ pcall.op = "get_lmst" => InTurn(pres.lmst)
    /\ pcall.op = "precess_time" =>
          /\ InTurn(pres.info.lmst)
          /\ InTurn(pres.info.lmst_j2000)
          /\ InTurn(pres.info.hadec_j2000.ha)

\* C27: the rotation matrix stored in the PrecessionInfo that precess_time
\* returns is the transpose of the matrix palPrenut produced:
\* stored[j][i] = produced[i][j] for all i, j in 0..2.
C27_Transposed ==
    pcall.op = "precess_time" =>
        \A i \in 0..2 : \A j \in 0..2 :
            pres.info.rotation_matrix[j][i] = pcall.produced[i][j]

\* C27 witness: a matrix that is not symmetric, entry [0][2] = 3 and entry
\* [2][0] = 7, has been stored with the two exchanged
C27_Witness ==
    /\ pcall.op = "precess_time"
    /\ pcall.produced[0][2] = F(3)
    /\ pcall.produced[2][0] = F(7)
    /\ pres.info.rotation_matrix[0][2] = F(7)
    /\ pres.info.rotation_matrix[2][0] = F(3)

(***************************************************************************)
(* Claims about the dates of the file (SpecDate)                           *)
(***************************************************************************)
\* C24: the DATE parameter written by write_vis_row is the row epoch's Julian
\* date minus the Julian date of the file's truncated reference date, which
\* is the start epoch's calendar day at 00:00:00 UTC, the date written to
\* DATE-OBS, and the value new wrote as PZERO5; so PZERO5 + DATE is the row's
\* epoch, and DATE lies in [0, 1) for every row on the start epoch's day.
C24_DateParameter ==
    (call.op = "write_vis_row" /\ res.kind = "Ok") =>
        LET date == ffpgpe[1].row.date
            reference == JulianDateOf(primary_header.DATE_OBS)
        IN  /\ JulianDateOf(get_truncated_date_string(start_epoch)) = reference
            /\ primary_header.PZERO5 = reference
            /\ date = RSub(call.epoch, reference)
            /\ RAdd(primary_header.PZERO5, date) = call.epoch
            /\ JulianDayNumber(call.epoch) = JulianDayNumber(start_epoch) =>
                  date.n >= 0 /\ FLt(date, F(1))

(***************************************************************************)
(* Claims about a failed row write in write_vis_marlu (SpecAbort)          *)
(***************************************************************************)
\* the call c reaches the row loop and the group write of one of its rows fails
RowFails(c, current, total) ==
    /\ c.op = "write_vis_marlu"
    /\ c.vis_dim = sel_dims(c.ctx)
    /\ c.weights_dim = sel_dims(c.ctx)
    /\ ~c.open_fails
    /\ total - current >= num_avg_rows(c.ctx)
    /\ c.fail_at \in 1..num_avg_rows(c.ctx)

\* C25: when the group write of row k of a write_vis_marlu call fails, the
\* call returns the error, exactly k group writes were attempted (the rows
\* before k and row k, none after), each row before k stays written in its
\* group, no other group is touched, and current_num_rows is its value before
\* the call plus k - 1.
C25_NoRollback ==
    [][RowFails(call', current_num_rows, total_num_rows) =>
          LET k == call'.fail_at
          IN  /\ res' = FitsError
              /\ Len(ffpgpe') = k
              /\ \A i \in 1..k :
                    /\ ffpgpe'[i].group = current_num_rows + i
                    /\ ffpgpe'[i].ok <=> i < k
              /\ current_num_rows' = current_num_rows + (k - 1)
              /\ groups' = [g \in DOMAIN groups |->
                              IF g \in (current_num_rows + 1)..(current_num_rows + k - 1)
                              THEN groups[g] + 1 ELSE groups[g]]
              /\ total_num_rows' = total_num_rows]_vars

\* C25 witness: the second of four rows failed on a writer that held nothing
\* before: one row is in the file, two group writes were made
C25_Witness ==
    /\ RowFails(call, call.cur0, total_num_rows)
    /\ call.fail_at = 2
    /\ num_avg_rows(call.ctx) = 4
    /\ res = FitsError
    /\ Len(ffpgpe) = 2
    /\ current_num_rows = 1
    /\ groups[1] = 1
    /\ groups[2] = 0

(***************************************************************************)
(* Claims about the layout read_mwalib stores (SpecRead)                   *)
(***************************************************************************)
\* C26: after a successful read of timestep position t and the i-th coarse
\* channel of the selection (i from 0; task i + 1), for every position k in
\* baseline_idxs and fine channel c < f, jones_array[t][i*f + c][k] is the
\* Jones value made from the 8 floats at offset (baseline_idxs[k]*f + c)*8 of
\* the buffer of that read: the third axis follows the order of baseline_idxs.
C26_JonesLayout ==
    ReadStarted =>
        LET f == corr_ctx.num_corr_fine_chans_per_coarse
        IN  \A i \in 0..(sel_num_coarse_chans - 1) :
            \A t \in 0..(sel_num_timesteps - 1) :
                WasRead(t, i + 1, "ok") =>
                    \A k \in 0..(Len(vis_sel.baseline_idxs) - 1) :
                    \A c \in 0..(f - 1) :
                        jones_array.data[<<t, i * f + c, k>>]
                            = JonesFrom(sel_timestep_idx(t), sel_coarse_chan_idx(i + 1),
                                        (vis_sel.baseline_idxs[k + 1] * f + c) * 8)

\* C26 witness: baselines 0 and 2 selected, two fine channels per coarse
\* channel: the second coarse channel's second fine channel of baseline 2 is
\* at array position [0][3][1] and was taken from offset (2*2 + 1)*8 = 40
C26_Witness ==
    /\ ReadReturned
    /\ sres.kind = "Ok"
    /\ vis_sel.baseline_idxs = <<0, 2>>
    /\ corr_ctx.num_corr_fine_chans_per_coarse = 2
    /\ WasRead(0, 2, "ok")
    /\ jones_array.data[<<0, 3, 1>>].off = 40
    /\ jones_array.data[<<0, 2, 0>>].off = 0

(***************************************************************************)
(* Claims about precess_xyz_parallel (SpecXyz)                             *)
(***************************************************************************)
\* one element precessed on its own, with nothing running beside it
PrecessedAlone(self, xyz) ==
    precess_xyz(sin_cos(self.lmst)[1], sin_cos(self.lmst)[2],
                sin_cos(self.lmst_j2000)[1], sin_cos(self.lmst_j2000)[2],
                self.rotation_matrix, xyz)

\* C28: precess_xyz_parallel returns a vector as long as its input and in its
\* order, element i being what the PrecessionInfo makes of input element i
\* alone, whatever the order in which the parallel tasks ran; the input slice
\* and the PrecessionInfo are never changed.
C28_ParallelMap ==
    pcall.op = "precess_xyz_parallel" =>
        /\ xyzs = pcall.xyzs
        /\ precession_info = pcall.self
        /\ pres.kind = "Vec" =>
              /\ Len(out) = Len(pcall.xyzs)
              /\ \A i \in 1..Len(out) :
                    out[i] = PrecessedAlone(pcall.self, pcall.xyzs[i])

\* C28 witness: three elements, the tasks finished last to first, and the
\* first two results differ
C28_Witness ==
    /\ pcall.op = "precess_xyz_parallel"
    /\ pres.kind = "Vec"
    /\ Len(out) = 3
    /\ xyz_tasks[1].at = 3
    /\ xyz_tasks[2].at = 2
    /\ xyz_tasks[3].at = 1
    /\ out[1] # out[2]
    /\ pcall.xyzs[1] # pcall.xyzs[2]

(***************************************************************************)
(* Claims about the group index of write_vis_row (Spec)                    *)
(***************************************************************************)
\* C29: the n-th successful write_vis_row call on a writer, made directly or
\* by write_vis_marlu, writes group n: after n successful calls exactly the
\* groups 1..n have been written, each once, and a successful direct call has
\* written the group whose number is the count of successes so far.
C29_GroupsInOrder ==
    wpc # "none" =>
        /\ \A g \in DOMAIN groups : groups[g] = IF g <= succ THEN 1 ELSE 0
        /\ succ <= total_num_rows
        /\ (call.op = "write_vis_row" /\ res.kind = "Ok") =>
              /\ Len(ffpgpe) = 1
              /\ ffpgpe[1].group = succ
        /\ call.op = "write_vis_marlu" =>
              \A k \in OkCalls(ffpgpe) :
                  ffpgpe[k].group = succ - Cardinality(OkCalls(ffpgpe)) + k

\* C29 witness: the third successful write, after a failed one and two rows of
\* a write_vis_marlu call, went to group 3 of 4
C29_Witness ==
    /\ call.op = "write_vis_row"
    /\ res.kind = "Ok"
    /\ succ = 3
    /\ total_num_rows = 4
    /\ ffpgpe[1].group = 3
    /\ groups = <<1, 1, 1, 0>>

\* C30: a write_vis_row call that fails, with BadRowNum or with the error of
\* the group write, leaves current_num_rows, total_num_rows, start_epoch and
\* the written groups as they were, so the next successful write goes to the
\* group the failed one aimed at; a successful call advances the counter by
\* exactly 1 and changes no other field.
C30_FailureKeepsWriter ==
    /\ [][call'.op = "write_vis_row" =>
            /\ res'.kind \in {"Ok", "BadRowNum", "Fits"}
            /\ total_num_rows' = total_num_rows
            /\ start_epoch' = start_epoch
            /\ wpc' = wpc
            /\ IF res'.kind = "Ok"
               THEN current_num_rows' = current_num_rows + 1
               ELSE /\ current_num_rows' = current_num_rows
                    /\ groups' = groups
                    /\ succ' = succ]_vars
    /\ [][(/\ call.op = "write_vis_row"
           /\ res.kind = "Fits"
           /\ call'.op = "write_vis_row"
           /\ res'.kind = "Ok") => ffpgpe'[1].group = ffpgpe[1].group]_vars
    /\ []((call.op = "write_vis_row" /\ res.kind = "Fits") =>
             /\ Len(ffpgpe) = 1
             /\ ffpgpe[1].group = current_num_rows + 1)
    /\ []((call.op = "write_vis_row" /\ res.kind = "BadRowNum") =>
             /\ ffpgpe = <<>>
             /\ current_num_rows = total_num_rows)

\* C30 witness: the group write of the second row failed, the counter stayed
\* at 1 and group 2 is still to be written
C30_Witness ==
    /\ call.op = "write_vis_row"
    /\ res.kind = "Fits"
    /\ call.cur0 = 1
    /\ current_num_rows = 1
    /\ ffpgpe[1].group = 2
    /\ groups[2] = 0
    /\ total_num_rows = 4

====
